---- MODULE Spec2Model ----
(***************************************************************************)
(* Amazon Price Converter (userscript): rate provider with per-base cache, *)
(* price parsing, the conversion pass over the document, and the handlers  *)
(* (init, debounced re-scan, Save, Refresh FX) that drive them.            *)
(*                                                                         *)
(* Text is a sequence of one-character strings.  A number is a record      *)
(* [k, m, e]: k = "num" stands for m / 10^e (e fraction digits, no         *)
(* trailing zero), k = "nan" for NaN and k = "null" for null.              *)
(***************************************************************************)
EXTENDS Integers, Sequences, FiniteSets, TLC

(***************************************************************************)
(* Numbers                                                                 *)
(***************************************************************************)
Digits == {"0", "1", "2", "3", "4", "5", "6", "7", "8", "9"}

DigitVal(c) ==
    CASE c = "0" -> 0 [] c = "1" -> 1 [] c = "2" -> 2 [] c = "3" -> 3
      [] c = "4" -> 4 [] c = "5" -> 5 [] c = "6" -> 6 [] c = "7" -> 7
      [] c = "8" -> 8 [] c = "9" -> 9

DigitChar(d) ==
    CASE d = 0 -> "0" [] d = 1 -> "1" [] d = 2 -> "2" [] d = 3 -> "3"
      [] d = 4 -> "4" [] d = 5 -> "5" [] d = 6 -> "6" [] d = 7 -> "7"
      [] d = 8 -> "8" [] d = 9 -> "9"

RECURSIVE Pow10(_)
Pow10(n) == IF n = 0 THEN 1 ELSE 10 * Pow10(n - 1)

NullVal == [k |-> "null", m |-> 0, e |-> 0]
NaNVal == [k |-> "nan", m |-> 0, e |-> 0]

\* m / 10^e without trailing fraction zeros: equal numbers are equal records.
RECURSIVE Num(_, _)
Num(m, e) ==
    IF e > 0 /\ m % 10 = 0 THEN Num(m \div 10, e - 1)
    ELSE [k |-> "num", m |-> m, e |-> e]

IsNum(v) == v.k = "num"

\* baseValue * rate of createHintElement; NaN * x is NaN.
Times(v, r) == IF IsNum(v) /\ IsNum(r) THEN Num(v.m * r.m, v.e + r.e) ELSE NaNVal

\* The value of a singleton set: The({F(x) : x \in {e}}) is F(e) with e
\* evaluated once.
The(S) == CHOOSE x \in S : TRUE

(***************************************************************************)
(* Text helpers                                                            *)
(***************************************************************************)
RECURSIVE Filter(_, _)
Filter(s, keep) ==
    IF s = <<>> THEN <<>>
    ELSE (IF Head(s) \in keep THEN <<Head(s)>> ELSE <<>>) \o Filter(Tail(s), keep)

\* s.replace(/[...]/g, ''): s without the characters of drop.
RECURSIVE Without(_, _)
Without(s, drop) ==
    IF s = <<>> THEN <<>>
    ELSE (IF Head(s) \in drop THEN <<>> ELSE <<Head(s)>>) \o Without(Tail(s), drop)

\* String.prototype.lastIndexOf, 1-based; 0 when c does not occur.
LastIndexOf(s, c) ==
    IF \E i \in 1..Len(s) : s[i] = c
    THEN CHOOSE i \in 1..Len(s) : s[i] = c /\ \A j \in (i + 1)..Len(s) : s[j] # c
    ELSE 0

\* String.prototype.replace with a string pattern: the first occurrence only.
ReplaceFirst(s, c, d) ==
    IF \E i \in 1..Len(s) : s[i] = c
    THEN LET i == CHOOSE i \in 1..Len(s) : s[i] = c /\ \A j \in 1..(i - 1) : s[j] # c
         IN  [s EXCEPT ![i] = d]
    ELSE s

\* The longest prefix of s made of digits.
RECURSIVE DigitPrefix(_)
DigitPrefix(s) ==
    IF s # <<>> /\ Head(s) \in Digits THEN <<Head(s)>> \o DigitPrefix(Tail(s)) ELSE <<>>

RECURSIVE DigitsToNat(_, _)
DigitsToNat(s, acc) ==
    IF s = <<>> THEN acc ELSE DigitsToNat(Tail(s), 10 * acc + DigitVal(Head(s)))

Drop(s, n) == SubSeq(s, n + 1, Len(s))

\* String.prototype.trim over the characters of the model: blanks at both ends.
RECURSIVE TrimLeft(_)
TrimLeft(s) == IF s # <<>> /\ Head(s) = " " THEN TrimLeft(Tail(s)) ELSE s

RECURSIVE TrimRight(_)
TrimRight(s) ==
    IF s # <<>> /\ s[Len(s)] = " " THEN TrimRight(SubSeq(s, 1, Len(s) - 1)) ELSE s

Trim(s) == TrimRight(TrimLeft(s))

(***************************************************************************)
(* parseFloat: leading blanks, an optional sign, digits, an optional       *)
(* fraction; the longest numeric prefix counts, NaN when there is none.    *)
(***************************************************************************)
ParseFloat(str) ==
    The({ LET neg == s0 # <<>> /\ Head(s0) = "-"
              s1 == IF s0 # <<>> /\ Head(s0) \in {"-", "+"} THEN Tail(s0) ELSE s0
              ip == DigitPrefix(s1)
              r1 == Drop(s1, Len(ip))
              fp == IF r1 # <<>> /\ Head(r1) = "." THEN DigitPrefix(Tail(r1)) ELSE <<>>
              mag == DigitsToNat(ip \o fp, 0)
          IN  IF ip = <<>> /\ fp = <<>> THEN NaNVal
              ELSE Num(IF neg THEN 0 - mag ELSE mag, Len(fp)) :
          s0 \in {TrimLeft(str)} })

(***************************************************************************)
(* parseStringValue                                                        *)
(***************************************************************************)
\* A variant that takes the period for the decimal point whenever both occur.
NormalisedPeriodDecimal(clean) ==
    The({ IF ld[1] > 0 /\ ld[2] > 0 THEN Without(clean, {","})
          ELSE IF ld[2] > 0 THEN ReplaceFirst(clean, ",", ".")
               ELSE clean :
          ld \in {<<LastIndexOf(clean, "."), LastIndexOf(clean, ",")>>} })

\* clean after the separators are normalised.
Normalised(clean) ==
    The({ IF ld[1] > 0 /\ ld[2] > 0
          THEN IF ld[1] > ld[2]
               THEN Without(clean, {","})
               ELSE ReplaceFirst(Without(clean, {"."}), ",", ".")
          ELSE IF ld[2] > 0 THEN ReplaceFirst(clean, ",", ".")
               ELSE clean :
          ld \in {<<LastIndexOf(clean, "."), LastIndexOf(clean, ",")>>} })

\* A variant that returns what parseFloat returns, NaN included.
ParseStringValueNoNaNTest(str) ==
    The({ IF sv = <<>> \/ ~(\E i \in 1..Len(sv) : sv[i] \in Digits) THEN NullVal
          ELSE The({ ParseFloat(Normalised(clean)) :
                       clean \in {Filter(sv, Digits \cup {".", ","})} }) :
          sv \in {str} })

ParseStringValue(str) ==
    The({ IF sv = <<>> \/ ~(\E i \in 1..Len(sv) : sv[i] \in Digits) THEN NullVal
          ELSE The({ IF floatVal.k = "nan" THEN NullVal ELSE floatVal :
                       floatVal \in { ParseFloat(Normalised(clean)) :
                                        clean \in {Filter(sv, Digits \cup {".", ","})} } }) :
          sv \in {str} })

(***************************************************************************)
(* Formatting: getAutoFormattingFor, buildFormatter, formatCurrency.       *)
(* Characters outside ASCII are named: "nbsp", "approx", "euro".           *)
(***************************************************************************)
\* CURRENCY_META: the automatic locale and suffix of a currency.
AutoLocale(cur) ==
    CASE cur = "HUF" -> "hu-HU" [] cur = "EUR" -> "de-DE"
      [] cur = "USD" -> "en-US" [] cur = "GBP" -> "en-GB"
      [] cur = "JPY" -> "ja-JP"
      [] OTHER -> "en-US"

AutoSuffix(cur) ==
    CASE cur = "HUF" -> <<" ", "F", "t">> [] cur = "EUR" -> <<" ", "euro">>
      [] cur = "USD" -> <<" ", "$">> [] cur = "GBP" -> <<" ", "pound">>
      [] cur = "JPY" -> <<" ", "yen">>
      [] cur = "ISK" -> <<" ", "I", "S", "K">>
      [] OTHER -> <<" ">>

\* Zero fraction digits for currencies without minor units.
ZeroFrac(cur) == cur \in {"HUF", "JPY", "ISK"}
MaxFractionDigits(cur) == IF ZeroFrac(cur) THEN 0 ELSE 2

\* The number symbols Intl.NumberFormat uses for a locale.
GroupSep(locale) ==
    CASE locale = "hu-HU" -> "nbsp" [] locale = "de-DE" -> "." [] OTHER -> ","
DecimalSep(locale) == IF locale \in {"hu-HU", "de-DE"} THEN "," ELSE "."

RECURSIVE NatToDigits(_)
NatToDigits(n) ==
    IF n < 10 THEN <<DigitChar(n)>>
    ELSE NatToDigits(n \div 10) \o <<DigitChar(n % 10)>>

\* Digits in groups of three from the right.
RECURSIVE Grouped(_, _)
Grouped(ds, sep) ==
    IF Len(ds) <= 3 THEN ds
    ELSE Grouped(SubSeq(ds, 1, Len(ds) - 3), sep) \o <<sep>>
           \o SubSeq(ds, Len(ds) - 2, Len(ds))

\* A variant that groups integers of four digits in every locale.
MinimumGroupingOne(locale) == 1

\* The locale's minimumGroupingDigits: the digits the first group must have
\* for the integer to be grouped at all.  Hungarian groups from five digits
\* on, so 5196 is written without a separator and 12345 as 12 345.
MinimumGroupingDigits(locale) == IF locale = "hu-HU" THEN 2 ELSE 1

\* The integer digits as the locale groups them.
GroupedFor(ds, locale) ==
    IF Len(ds) >= 3 + MinimumGroupingDigits(locale)
    THEN Grouped(ds, GroupSep(locale))
    ELSE ds

\* n as exactly w digits, then without trailing zeros (minimumFractionDigits 0).
RECURSIVE Padded(_, _)
Padded(n, w) == IF w = 0 THEN <<>> ELSE Padded(n \div 10, w - 1) \o <<DigitChar(n % 10)>>

RECURSIVE StripZeros(_)
StripZeros(ds) ==
    IF ds # <<>> /\ ds[Len(ds)] = "0" THEN StripZeros(SubSeq(ds, 1, Len(ds) - 1)) ELSE ds

\* FORMATTER.format(v): style decimal, rounded half away from zero to
\* maxFrac fraction digits, grouped.
FormatNumber(v, locale, maxFrac) ==
    IF v.k # "num" THEN <<"N", "a", "N">>
    ELSE
      LET mag == IF v.m < 0 THEN 0 - v.m ELSE v.m
          unit == Pow10(IF v.e > maxFrac THEN v.e - maxFrac ELSE 0)
          scaled == IF v.e <= maxFrac THEN mag * Pow10(maxFrac - v.e)
                    ELSE (mag + unit \div 2) \div unit
          ip == scaled \div Pow10(maxFrac)
          fp == StripZeros(Padded(scaled % Pow10(maxFrac), maxFrac))
      IN  (IF v.m < 0 /\ scaled # 0 THEN <<"-">> ELSE <<>>)
            \o GroupedFor(NatToDigits(ip), locale)
            \o (IF fp = <<>> THEN <<>> ELSE <<DecimalSep(locale)>> \o fp)

\* Locale strings a settings store can hold: language tags, "" (read as
\* undefined: the browser's own locale), and "en_US", which is not a
\* language tag, so that the constructor throws a RangeError.
NavigatorLanguage == "en-US"
RejectedLocales == {"en_US"}

\* buildFormatter(s): the formatter, or the exception of its constructor.
BuildFormatter(s) ==
    The({ IF locale \in RejectedLocales
          THEN [ok |-> FALSE, locale |-> locale, maxFrac |-> 0]
          ELSE [ok |-> TRUE,
                locale |-> IF locale = "" THEN NavigatorLanguage ELSE locale,
                maxFrac |-> MaxFractionDigits(s.targetCurrency)] :
          locale \in {IF s.overrideFormatting THEN s.targetLocale
                      ELSE AutoLocale(s.targetCurrency)} })

\* formatCurrency(value) with the formatter built from settings s (the
\* suffix is the automatic one).
FormatCurrency(v, s) ==
    The({ FormatNumber(v, f.locale, f.maxFrac) : f \in {BuildFormatter(s)} })
      \o AutoSuffix(s.targetCurrency)

(***************************************************************************)
(* Rate provider: constants, storage values, responses                     *)
(***************************************************************************)
FX_CACHE_MS == 12 * 60 * 60 * 1000

\* Bounds of the model.
MaxTicks == 2
MaxInFlight == 1

\* The clock moves in half cache lifetimes, so an age of exactly 12 h occurs.
TickMs == FX_CACHE_MS \div 2
\* Date.now() at page load: later than one cache lifetime after the epoch.
StartTime == 2 * FX_CACHE_MS

Bases == {"EUR", "GBP"}
Targets == {"HUF", "USD"}
\* Codes as a caller may pass them; toUpperCase maps them to ISO codes.
BaseArgs == Bases \cup {"eur"}
TargetArgs == {"EUR"} \cup Targets \cup {"huf"}

ToUpperCase(c) == CASE c = "eur" -> "EUR" [] c = "huf" -> "HUF" [] OTHER -> c

\* Values a JSON rates table can hold under a key (or not hold: undefined).
Undefined == [k |-> "undef", m |-> 0, e |-> 0]
NonNumeric == [k |-> "str", m |-> 0, e |-> 0]
Infinite == [k |-> "inf", m |-> 0, e |-> 0]
Zero == Num(0, 0)
One == Num(1, 0)
RateVals == {Num(4, 0), Num(0 - 3, 0), Undefined, NonNumeric, Infinite}

\* JavaScript truthiness, isFinite() and > 0 on such a value.
Truthy(r) == (r.k = "num" /\ r.m # 0) \/ r.k \in {"str", "inf"}
IsFinite(r) == r.k = "num"
Positive(r) == (r.k = "num" /\ r.m > 0) \/ r.k = "inf"
ValidRate(r) == Truthy(r) /\ IsFinite(r) /\ Positive(r)

\* A rates table; a key outside it reads as undefined.
Tables ==
    {[c \in Targets |-> IF c = "HUF" THEN v ELSE Num(2, 0)] : v \in RateVals}
      \cup {[c \in Targets |-> IF c = "HUF" THEN Num(4, 0) ELSE Undefined]}
NoTable == [c \in Targets |-> Undefined]
Lookup(table, key) == IF key \in DOMAIN table THEN table[key] ELSE Undefined

\* A stored value of GM storage under apc_rates_<base>: null or a table.
NullEntry == [has |-> FALSE, table |-> NoTable]
TableEntry(t) == [has |-> TRUE, table |-> t]

\* What GM_xmlhttpRequest reports: onload with a status and a body (any
\* status reaches onload), or onerror.
Statuses == {200, 404}
Bodies == {"malformed", "norates", "table"}
Responses ==
    {[kind |-> "load", status |-> st, body |-> "table", table |-> t] :
        st \in Statuses, t \in Tables}
      \cup {[kind |-> "load", status |-> st, body |-> b, table |-> NoTable] :
              st \in Statuses, b \in {"malformed", "norates"}}
      \cup {[kind |-> "error", status |-> 0, body |-> "malformed", table |-> NoTable]}

(***************************************************************************)
(* getExchangeRate, up to the point where it returns or sends the request. *)
(* kind "same": base = target, nothing read.  kind "cache": answered from  *)
(* the stored table.  kind "fetch": a request for the base's table.        *)
(* read: whether GM_getValue was called.                                   *)
(***************************************************************************)
\* A variant that still serves an entry of age exactly 12 h.
FreshInclusive(cachedRates, lastUpdate, t) ==
    cachedRates.has /\ (t - lastUpdate) <= FX_CACHE_MS

\* cachedRates && (now - lastUpdate) < FX_CACHE_MS
Fresh(cachedRates, lastUpdate, t) ==
    cachedRates.has /\ (t - lastUpdate) < FX_CACHE_MS

\* A variant that asks the network again when the fresh table has no valid
\* rate for the target.
RefetchWhenRateInvalid(baseIso, targetIso, store, stamps, t) ==
    LET rate == Lookup(store[baseIso].table, targetIso)
    IN  IF Fresh(store[baseIso], stamps[baseIso], t) /\ ValidRate(rate)
        THEN [kind |-> "cache", base |-> baseIso, target |-> targetIso,
              value |-> rate, read |-> TRUE]
        ELSE [kind |-> "fetch", base |-> baseIso, target |-> targetIso,
              value |-> Zero, read |-> TRUE]

\* The cache lookup, for base # target.
FromCacheOrNetwork(baseIso, targetIso, store, stamps, t) ==
    LET lastUpdate == stamps[baseIso]
        cachedRates == store[baseIso]
    IN  IF Fresh(cachedRates, lastUpdate, t)
        THEN LET rate == Lookup(cachedRates.table, targetIso)
             IN  [kind |-> "cache", base |-> baseIso, target |-> targetIso,
                  value |-> IF ValidRate(rate) THEN rate ELSE Zero,
                  read |-> TRUE]
        ELSE [kind |-> "fetch", base |-> baseIso, target |-> targetIso,
              value |-> Zero, read |-> TRUE]

\* A variant without the base = target shortcut.
GetExchangeRateNoShortcut(baseArg, targetArg, store, stamps, t) ==
    FromCacheOrNetwork(ToUpperCase(baseArg), ToUpperCase(targetArg), store, stamps, t)

GetExchangeRateSync(baseArg, targetArg, store, stamps, t) ==
    LET baseIso == ToUpperCase(baseArg)
        targetIso == ToUpperCase(targetArg)
    IN  IF baseIso = targetIso
        THEN [kind |-> "same", base |-> baseIso, target |-> targetIso, value |-> One,
              read |-> FALSE]
        ELSE FromCacheOrNetwork(baseIso, targetIso, store, stamps, t)

\* The onload callback: what it resolves with and whether it stores.
OnLoad(resp, targetIso) ==
    IF resp.body = "malformed" THEN [store |-> FALSE, value |-> Zero]
    ELSE
      LET hasRates == resp.body = "table"
          r == Lookup(resp.table, targetIso)
      IN  IF hasRates /\ Truthy(r) /\ IsFinite(r)
          THEN [store |-> TRUE, value |-> r]
          ELSE [store |-> FALSE, value |-> Zero]

\* The request's outcome: onload or onerror (which resolves with 0).
Outcome(resp, targetIso) ==
    IF resp.kind = "error" THEN [store |-> FALSE, value |-> Zero]
    ELSE OnLoad(resp, targetIso)

\* A variant that stores the requested target's rate only.
StoreTargetOnly(store, req, resp) ==
    [store EXCEPT ![req.base] =
        TableEntry([c \in Targets |->
                      IF c = req.target THEN resp.table[c] ELSE Undefined])]

\* A variant that merges the requested target's rate into the stored table.
StoreMerged(store, req, resp) ==
    [store EXCEPT ![req.base] =
        TableEntry([c \in Targets |->
                      IF c = req.target THEN resp.table[c]
                      ELSE store[req.base].table[c]])]

\* GM_setValue(ratesKey, rates); GM_setValue(tsKey, now) of a storing onload.
StoreRates(store, req, resp) == [store EXCEPT ![req.base] = TableEntry(resp.table)]
StoreStamp(stamps, req) == [stamps EXCEPT ![req.base] = req.now]

(***************************************************************************)
(* State                                                                   *)
(***************************************************************************)
VARIABLES
    gmRates,    \* GM storage, apc_rates_<base>: null or the stored table
    gmStamps,   \* GM storage, apc_rates_ts_<base>: the fetch timestamp
    now,        \* Date.now()
    requests,   \* GM_xmlhttpRequest calls in flight, in the order sent
    ev,         \* the last getExchangeRate event, for the properties
    fetchedFor  \* per base: the target of the request whose onload stored

VARIABLES
    elems,      \* the host page's elements, in document order
    kids,       \* per element (0: body): its child nodes, elements and hints
    processed,  \* the elements carrying the class apc-processed
    hist        \* the last two document operations, for the properties

VARIABLES
    SETTINGS,      \* the settings snapshot (null before init)
    CURRENT_BASE,  \* detected base ISO
    CURRENT_RATE,  \* base -> target
    pc,            \* init: "start", "awaiting" its rate, "done", or "failed" by an exception
    observing,     \* the MutationObserver is installed
    timer,         \* the pending timeouts of debouncedRun: their remaining waits, oldest first
    quiet,         \* ms since the most recent observed mutation, up to WaitMs
    burst,         \* observed mutations no re-scan has followed yet, up to MaxBurst
    call           \* a pure function applied on its own: [fn, arg, ret]

rateVars == <<gmRates, gmStamps, now, requests, ev, fetchedFor>>
domVars == <<elems, kids, processed, hist>>
appVars == <<SETTINGS, CURRENT_BASE, CURRENT_RATE, pc, observing, timer, quiet, burst>>
NoCall == [fn |-> "none", arg |-> <<>>, ret |-> NullVal]

vars == <<rateVars, domVars, appVars, call>>

NoResponse == [kind |-> "none", status |-> 0, body |-> "malformed", table |-> NoTable]

NoEvent ==
    [op |-> "none", base |-> "", target |-> "", kind |-> "", value |-> Zero,
     resolved |-> FALSE, sent |-> 0, read |-> FALSE, resp |-> NoResponse,
     pre |-> NullEntry, preTs |-> 0, at |-> 0]

(***************************************************************************)
(* debounce(fn, waitMs) and the timeouts it sets.  Timeouts of one wait    *)
(* become due in the order they were set, so the timeout the closure       *)
(* variable t names, if it is still pending, is the last of the sequence.  *)
(***************************************************************************)
\* The wait of debouncedRun.
WaitMs == 200
\* The step of the clock that timeouts are measured with.
StepMs == WaitMs \div 2

\* clearTimeout(t)
ClearTimeout(tms) == IF tms = <<>> THEN <<>> ELSE SubSeq(tms, 1, Len(tms) - 1)
\* setTimeout(..., waitMs)
SetTimeout(tms, waitMs) == Append(tms, waitMs)

\* A variant that sets the new timeout without clearing the pending one.
DebouncedNoClear(tms) == SetTimeout(tms, WaitMs)

\* One call of debounced(): if (t) clearTimeout(t); t = setTimeout(...).
Debounced(tms) == SetTimeout(ClearTimeout(tms), WaitMs)

\* The observer's callback runs after a task that changed the child lists.
Observe(tms, mutated) == IF mutated THEN Debounced(tms) ELSE tms
Min(a, b) == IF a < b THEN a ELSE b
Max(a, b) == IF a > b THEN a ELSE b

\* The longest burst of mutations that is counted.
MaxBurst == 2
ObservedQuiet(q, mutated) == IF mutated THEN 0 ELSE q
ObservedBurst(n, mutated) == IF mutated THEN Min(n + 1, MaxBurst) ELSE n

(***************************************************************************)
(* The document.  An element is [parent, cls, tag, attr, text]: its parent *)
(* (0: body), classes, tag, data-csa-c-delivery-price attribute and its    *)
(* own text, which precedes its child nodes.  A child node is an element   *)
(* or a hint the script inserted.                                          *)
(***************************************************************************)
MaxBlocks == 2

NoAttr == [has |-> FALSE, val |-> <<>>]
Attr(t) == [has |-> TRUE, val |-> t]

CartClasses == {"sc-price", "ewc-subtotal-amount", "ewc-unit-price"}

PriceText == <<"1", ",", "5">>
NoDigitText == <<"x">>
FeeText == <<"2", ",", "5">>

\* An element of a block; parent 0 is the place the block is put at.
El(parent, cls, tag, attr, text) ==
    [parent |-> parent, cls |-> cls, tag |-> tag, attr |-> attr, text |-> text]

\* The markup the host page is built from: price widgets (plain text,
\* empty, struck-through, whole + fraction, offscreen), delivery badges,
\* cart rows.
Blocks ==
    { <<El(0, {"a-price"}, "span", NoAttr, PriceText)>>,
      <<El(0, {"a-price"}, "span", NoAttr, <<>>)>>,
      <<El(0, {"a-price", "a-text-price"}, "span", NoAttr, PriceText)>>,
      <<El(0, {"a-price"}, "span", NoAttr, <<>>),
        El(1, {"a-price-whole"}, "span", NoAttr, <<"1", ",">>),
        El(1, {"a-price-fraction"}, "span", NoAttr, <<"5">>)>>,
      <<El(0, {"a-price"}, "span", NoAttr, <<>>),
        El(1, {"a-price-whole"}, "span", NoAttr, <<>>),
        El(1, {"a-price-fraction"}, "span", NoAttr, <<>>)>>,
      <<El(0, {"a-price"}, "span", NoAttr, <<>>),
        El(1, {"a-offscreen"}, "span", NoAttr, <<"E", "1", ",", "5">>)>>,
      <<El(0, {}, "span", Attr(FeeText), NoDigitText)>>,
      <<El(0, {}, "span", Attr(FeeText), <<>>),
        El(1, {}, "span", NoAttr, <<>>),
        El(2, {"a-text-bold"}, "span", NoAttr, NoDigitText)>>,
      <<El(0, {}, "span", Attr(<<"F", "r", "e", "e">>), NoDigitText)>>,
      <<El(0, {"sc-price"}, "span", NoAttr, PriceText)>>,
      <<El(0, {"ewc-unit-price"}, "span", NoAttr, NoDigitText)>>,
      <<El(0, {"ewc-subtotal-amount"}, "span", NoAttr, NoDigitText),
        El(1, {}, "h2", NoAttr, PriceText)>>,
      <<El(0, {"sc-price"}, "span", Attr(<<"F", "R", "E", "E">>), PriceText)>> }

\* The elements of block b put under element par, after `base` elements.
PlaceBlock(b, par, base) ==
    [i \in 1..Len(b) |->
        [b[i] EXCEPT !.parent = IF b[i].parent = 0 THEN par ELSE base + b[i].parent]]

RECURSIVE AncestorsIn(_, _)
AncestorsIn(es, i) ==
    IF i = 0 \/ es[i].parent = 0 THEN {}
    ELSE {es[i].parent} \cup AncestorsIn(es, es[i].parent)

\* Host pages of n blocks, a page being [es, last]: its elements in
\* document order and the first element of the block added last.  A block
\* is put at the end of the body, of the block before it, or of a block
\* around that one.
RECURSIVE BlockPages(_)
BlockPages(n) ==
    IF n = 0 THEN {[es |-> <<>>, last |-> 0, roots |-> {}]}
    ELSE UNION {
           { [es |-> pg.es \o PlaceBlock(b, par, Len(pg.es)),
              last |-> Len(pg.es) + 1,
              roots |-> pg.roots \cup {Len(pg.es) + 1}] :
               b \in Blocks,
               par \in {0} \cup ({pg.last} \ {0})
                         \cup (AncestorsIn(pg.es, pg.last) \cap pg.roots) } :
           pg \in BlockPages(n - 1) }

Pages(n) == {pg.es : pg \in BlockPages(n)}

\* Child nodes: an element, or a hint rendered for candidate id of group grp
\* from value val at rate `rate` under target currency cur.
ElItem(i) ==
    [k |-> "el", id |-> i, grp |-> 0, val |-> NullVal, rate |-> Zero, cur |-> ""]
HintItem(c, g, v, r, s) ==
    [k |-> "hint", id |-> c, grp |-> g, val |-> v, rate |-> r,
     cur |-> s.targetCurrency]

RECURSIVE ChildItems(_, _, _)
ChildItems(es, p, i) ==
    IF i > Len(es) THEN <<>>
    ELSE (IF es[i].parent = p THEN <<ElItem(i)>> ELSE <<>>) \o ChildItems(es, p, i + 1)

\* The child lists of a page without hints.
HostKids(es) == [p \in 0..Len(es) |-> ChildItems(es, p, 1)]

\* span.innerText = `(~ ${formatted})`
HintText(h) ==
    <<"(", "approx", " ">>
      \o FormatCurrency(Times(h.val, h.rate),
                        [targetCurrency |-> h.cur, overrideFormatting |-> FALSE])
      \o <<")">>

\* Node.textContent
RECURSIVE TextContent(_, _), ItemsText(_, _)
TextContent(ks, n) ==
    (IF n = 0 THEN <<>> ELSE elems[n].text) \o ItemsText(ks, ks[n])
ItemsText(ks, items) ==
    IF items = <<>> THEN <<>>
    ELSE (IF Head(items).k = "el" THEN TextContent(ks, Head(items).id)
          ELSE HintText(Head(items)))
           \o ItemsText(ks, Tail(items))

\* The elements below n in document order.
RECURSIVE Descendants(_, _), ItemsDescendants(_, _)
Descendants(ks, n) == ItemsDescendants(ks, ks[n])
ItemsDescendants(ks, items) ==
    IF items = <<>> THEN <<>>
    ELSE (IF Head(items).k = "el"
          THEN <<Head(items).id>> \o Descendants(ks, Head(items).id)
          ELSE <<>>)
           \o ItemsDescendants(ks, Tail(items))

RECURSIVE SelectSeq2(_, _)
SelectSeq2(ids, matches) ==
    IF ids = <<>> THEN <<>>
    ELSE (IF Head(ids) \in matches THEN <<Head(ids)>> ELSE <<>>)
           \o SelectSeq2(Tail(ids), matches)

\* document.querySelectorAll: the matching elements in document order.
QuerySelectorAll(ks, matches) == SelectSeq2(Descendants(ks, 0), matches)

\* element.querySelector: the first matching descendant, 0 for null.
QuerySelector(ks, n, matches) ==
    LET found == SelectSeq2(Descendants(ks, n), matches)
    IN  IF found = <<>> THEN 0 ELSE Head(found)

WithClass(c) == {i \in 1..Len(elems) : c \in elems[i].cls}
WithTag(t) == {i \in 1..Len(elems) : elems[i].tag = t}

Hints(ks) ==
    {h \in UNION {{ks[p][j] : j \in 1..Len(ks[p])} : p \in DOMAIN ks} : h.k = "hint"}

RECURSIVE CountHintsIn(_)
CountHintsIn(items) ==
    IF items = <<>> THEN 0
    ELSE (IF Head(items).k = "hint" THEN 1 ELSE 0) + CountHintsIn(Tail(items))

RECURSIVE SumHints(_, _)
SumHints(ks, p) ==
    IF p > Len(elems) THEN 0 ELSE CountHintsIn(ks[p]) + SumHints(ks, p + 1)

\* The number of hint nodes in the document.
CountHints(ks) == SumHints(ks, 0)

RECURSIVE CountOwned(_, _)
CountOwned(items, c) ==
    IF items = <<>> THEN 0
    ELSE (IF Head(items).k = "hint" /\ Head(items).id = c THEN 1 ELSE 0)
           + CountOwned(Tail(items), c)

RECURSIVE SumOwned(_, _, _)
SumOwned(ks, p, c) ==
    IF p > Len(elems) THEN 0 ELSE CountOwned(ks[p], c) + SumOwned(ks, p + 1, c)

\* The number of hint nodes rendered for candidate c.
HintsOf(ks, c) == SumOwned(ks, 0, c)

(***************************************************************************)
(* parsePriceFromComplexElement                                            *)
(***************************************************************************)
ParsePriceFromComplexElement(ks, element) ==
    The({ IF whole # 0 /\ fraction # 0
          THEN LET w == Without(Trim(TextContent(ks, whole)), {".", ","})
                   f == Trim(TextContent(ks, fraction))
               IN  ParseFloat(w \o <<".">> \o f)
          ELSE IF offscreen # 0 /\ Len(TextContent(ks, offscreen)) > 0
               THEN ParseStringValue(TextContent(ks, offscreen))
               ELSE ParseStringValue(TextContent(ks, element)) :
          whole \in {QuerySelector(ks, element, WithClass("a-price-whole"))},
          fraction \in {QuerySelector(ks, element, WithClass("a-price-fraction"))},
          offscreen \in {QuerySelector(ks, element, WithClass("a-offscreen"))} })

(***************************************************************************)
(* runConversionPass and clearRenderedHints on a document d = [kids, proc] *)
(***************************************************************************)
UpperChar(c) ==
    CASE c = "f" -> "F" [] c = "r" -> "R" [] c = "e" -> "E" [] c = "x" -> "X"
      [] c = "a" -> "A" [] c = "t" -> "T" [] OTHER -> c

ToUpper(str) == [i \in 1..Len(str) |-> UpperChar(str[i])]

AppendChild(ks, n, item) == [ks EXCEPT ![n] = Append(@, item)]

IndexOfElement(items, c) == CHOOSE j \in 1..Len(items) : items[j] = ElItem(c)

\* parent.insertBefore(item, c.nextSibling)
InsertAfter(ks, c, item) ==
    LET par == elems[c].parent
        j == IndexOfElement(ks[par], c)
    IN  [ks EXCEPT ![par] = SubSeq(@, 1, j) \o <<item>> \o SubSeq(@, j + 1, Len(@))]

MarkProcessed(d, el) == [d EXCEPT !.proc = @ \cup {el}]
IsProcessed(d, el) == el \in d.proc

\* A variant that leaves the widget unmarked.
PriceWidgetStepNoMark(d, container, rate, s) ==
    The({ LET hintEl == HintItem(container, 1, baseValue, rate, s)
          IN  IF baseValue.k # "null"
              THEN [d EXCEPT !.kids =
                       IF "a-text-price" \in elems[container].cls
                       THEN AppendChild(@, container, hintEl)
                       ELSE InsertAfter(@, container, hintEl)]
              ELSE d :
          baseValue \in {ParsePriceFromComplexElement(d.kids, container)} })

\* 1) One standard price widget.
PriceWidgetStep(d, container, rate, s) ==
    The({ LET hintEl == HintItem(container, 1, baseValue, rate, s)
          IN  IF baseValue.k # "null"
              THEN MarkProcessed(
                     [d EXCEPT !.kids =
                         IF "a-text-price" \in elems[container].cls
                         THEN AppendChild(@, container, hintEl)
                         ELSE InsertAfter(@, container, hintEl)],
                     container)
              ELSE d :
          baseValue \in {ParsePriceFromComplexElement(d.kids, container)} })

\* A variant that marks a badge only when it attached a hint to it.
DeliveryBadgeStepMarkOnHint(d, block, rate, s) ==
    The({ LET deliveryPriceStr == elems[block].attr.val
              hintEl == HintItem(block, 2, baseValue, rate, s)
              textTarget == IF bold # 0 THEN elems[bold].parent ELSE block
          IN  IF deliveryPriceStr # <<>>
                   /\ ToUpper(deliveryPriceStr) # <<"F", "R", "E", "E">>
                   /\ baseValue.k # "null"
              THEN MarkProcessed([d EXCEPT !.kids = AppendChild(@, textTarget, hintEl)],
                                 block)
              ELSE d :
          baseValue \in {ParseStringValue(elems[block].attr.val)},
          bold \in {QuerySelector(d.kids, block, WithClass("a-text-bold"))} })

\* 2) One delivery price badge.
DeliveryBadgeStep(d, block, rate, s) ==
    The({ LET deliveryPriceStr == elems[block].attr.val
              hintEl == HintItem(block, 2, baseValue, rate, s)
              textTarget == IF bold # 0 THEN elems[bold].parent ELSE block
          IN  MarkProcessed(
                IF deliveryPriceStr # <<>>
                     /\ ToUpper(deliveryPriceStr) # <<"F", "R", "E", "E">>
                     /\ baseValue.k # "null"
                THEN [d EXCEPT !.kids = AppendChild(@, textTarget, hintEl)]
                ELSE d,
                block) :
          baseValue \in {ParseStringValue(elems[block].attr.val)},
          bold \in {QuerySelector(d.kids, block, WithClass("a-text-bold"))} })

\* 3) One cart / sidebar total or unit price.
CartRowStep(d, el, rate, s) ==
    IF IsProcessed(d, el) THEN d
    ELSE
      The({ The({ LET hintEl == HintItem(el, 3, baseValue, rate, s)
                  IN  IF baseValue.k # "null"
                      THEN MarkProcessed(
                             [d EXCEPT !.kids = AppendChild(@, targetTextEl, hintEl)], el)
                      ELSE d :
                  baseValue \in {ParseStringValue(TextContent(d.kids, targetTextEl))} }) :
            targetTextEl \in { IF h2 # 0 THEN h2 ELSE el :
                                 h2 \in {QuerySelector(d.kids, el, WithTag("h2"))} } })

\* NodeList.forEach over a list taken before the loop.
RECURSIVE ForEach(_, _, _, _, _)
ForEach(d, list, g, rate, s) ==
    IF list = <<>> THEN d
    ELSE The({ ForEach(next, Tail(list), g, rate, s) :
                 next \in { CASE g = 1 -> PriceWidgetStep(d, Head(list), rate, s)
                              [] g = 2 -> DeliveryBadgeStep(d, Head(list), rate, s)
                              [] g = 3 -> CartRowStep(d, Head(list), rate, s) } })

PriceWidgets(d) == QuerySelectorAll(d.kids, WithClass("a-price") \ d.proc)
DeliveryBadges(d) ==
    QuerySelectorAll(d.kids, {i \in 1..Len(elems) : elems[i].attr.has} \ d.proc)
CartRows(d) ==
    QuerySelectorAll(d.kids, UNION {WithClass(c) : c \in CartClasses})

\* Each group's list is queried when its loop starts, after the loops before.
PassGroup(d, g, rate, s) ==
    ForEach(d, CASE g = 1 -> PriceWidgets(d) [] g = 2 -> DeliveryBadges(d)
                 [] g = 3 -> CartRows(d),
            g, rate, s)

\* A variant that does not look at the enabled setting.
RunConversionPassAlways(d, rate, s) ==
    The({ PassGroup(d2, 3, rate, s) :
            d2 \in { PassGroup(d1, 2, rate, s) :
                       d1 \in {PassGroup(d, 1, rate, s)} } })

\* A variant that takes the groups in the opposite order.
RunConversionPassReversed(d, rate, s) ==
    IF ~(s.loaded /\ s.enabled) THEN d
    ELSE The({ PassGroup(d2, 1, rate, s) :
                 d2 \in { PassGroup(d1, 2, rate, s) :
                            d1 \in {PassGroup(d, 3, rate, s)} } })

RunConversionPass(d, rate, s) ==
    IF ~(s.loaded /\ s.enabled) THEN d
    ELSE The({ PassGroup(d2, 3, rate, s) :
                 d2 \in { PassGroup(d1, 2, rate, s) :
                            d1 \in {PassGroup(d, 1, rate, s)} } })

RECURSIVE WithoutHints(_)
WithoutHints(items) ==
    IF items = <<>> THEN <<>>
    ELSE (IF Head(items).k = "hint" THEN <<>> ELSE <<Head(items)>>)
           \o WithoutHints(Tail(items))

\* clearRenderedHints: every .apc-tag removed, every apc-processed cleared.
ClearRenderedHints(d) ==
    [kids |-> [p \in DOMAIN d.kids |-> WithoutHints(d.kids[p])], proc |-> {}]

Doc == [kids |-> kids, proc |-> processed]

(***************************************************************************)
(* Settings                                                                *)
(***************************************************************************)
NullSettings ==
    [loaded |-> FALSE, enabled |-> FALSE, targetCurrency |-> "",
     overrideFormatting |-> FALSE, targetLocale |-> ""]
\* Settings as Save stores them with automatic formatting.
Settings(enabled, cur) ==
    [loaded |-> TRUE, enabled |-> enabled, targetCurrency |-> cur,
     overrideFormatting |-> FALSE, targetLocale |-> AutoLocale(cur)]
\* Settings with the formatting overridden by a locale of the user's.
Overridden(s, locale) ==
    [s EXCEPT !.overrideFormatting = TRUE, !.targetLocale = locale]
\* DEFAULTS
DefaultSettings == Settings(TRUE, "HUF")

(***************************************************************************)
(* The pass alone: a page, settings, and runConversionPass(rate) and       *)
(* clearRenderedHints applied in any order.                                *)
(***************************************************************************)
PassRates == {Num(4, 0), Zero}

NoHist == [prev |-> "none", last |-> "none", prevRate |-> Zero, rate |-> Zero, added |-> 0]

Record(op, rate, added) ==
    [prev |-> hist.last, last |-> op, prevRate |-> hist.rate, rate |-> rate,
     added |-> added]

IdleRate ==
    /\ gmRates = [b \in Bases |-> NullEntry]
    /\ gmStamps = [b \in Bases |-> 0]
    /\ now = StartTime
    /\ requests = <<>>
    /\ ev = NoEvent
    /\ fetchedFor = [b \in Bases |-> ""]

PassInit ==
    /\ IdleRate
    /\ \E n \in 1..MaxBlocks : elems \in Pages(n)
    /\ kids = HostKids(elems)
    /\ processed = {}
    /\ hist = NoHist
    /\ SETTINGS \in {Settings(TRUE, "HUF"), Settings(TRUE, "USD"), Settings(FALSE, "HUF")}
    /\ CURRENT_BASE = "EUR"
    /\ CURRENT_RATE = Zero
    /\ pc = "done"
    /\ observing = FALSE
    /\ timer = <<>>
    /\ quiet = WaitMs
    /\ burst = 0
    /\ call = NoCall

PassRun(rate) ==
    \E d \in {RunConversionPass(Doc, rate, SETTINGS)} :
        /\ kids' = d.kids
        /\ processed' = d.proc
        /\ hist' = Record("pass", rate, CountHints(d.kids) - CountHints(kids))
        /\ UNCHANGED <<elems, rateVars, appVars, call>>

PassClear ==
    \E d \in {ClearRenderedHints(Doc)} :
        /\ kids' = d.kids
        /\ processed' = d.proc
        /\ hist' = Record("clear", Zero, 0)
        /\ UNCHANGED <<elems, rateVars, appVars, call>>

PassNext == (\E rate \in PassRates : PassRun(rate)) \/ PassClear

SpecPass == PassInit /\ [][PassNext]_vars

\* A request in flight: its base and target, the `now` its call captured,
\* and the handler that awaits it.
Request(r, t, who) == [base |-> r.base, target |-> r.target, now |-> t, who |-> who]

RemoveAt(s, i) == SubSeq(s, 1, i - 1) \o SubSeq(s, i + 1, Len(s))

\* getExchangeRate alone: no page, no settings, no handler running.
RateInit ==
    /\ IdleRate
    /\ elems = <<>>
    /\ kids = HostKids(<<>>)
    /\ processed = {}
    /\ hist = NoHist
    /\ SETTINGS = NullSettings
    /\ CURRENT_BASE = "EUR"
    /\ CURRENT_RATE = Zero
    /\ pc = "done"
    /\ observing = FALSE
    /\ timer = <<>>
    /\ quiet = WaitMs
    /\ burst = 0
    /\ call = NoCall

(***************************************************************************)
(* A call of getExchangeRate(baseArg, targetArg): it resolves at once      *)
(* (base = target, or a fresh stored table) or sends one request.          *)
(***************************************************************************)
CallEvent(r, sent, store, stamps) ==
    [NoEvent EXCEPT !.op = "call", !.base = r.base, !.target = r.target,
                    !.kind = r.kind, !.value = r.value,
                    !.resolved = (r.kind # "fetch"), !.sent = sent,
                    !.read = r.read, !.at = now,
                    !.pre = store[r.base], !.preTs = stamps[r.base]]

Call(baseArg, targetArg, who) ==
    LET r == GetExchangeRateSync(baseArg, targetArg, gmRates, gmStamps, now)
        sends == IF r.kind = "fetch" THEN <<Request(r, now, who)>> ELSE <<>>
    IN  /\ Len(requests) + Len(sends) <= MaxInFlight
        /\ requests' = requests \o sends
        /\ ev' = CallEvent(r, Len(sends), gmRates, gmStamps)
        /\ UNCHANGED <<gmRates, gmStamps, now, fetchedFor>>

(***************************************************************************)
(* The response to request i arrives: onload(resp) or onerror.             *)
(***************************************************************************)
ResponseEvent(req, resp, o) ==
    [NoEvent EXCEPT !.op = resp.kind, !.base = req.base, !.target = req.target,
                    !.kind = "fetch", !.value = o.value, !.resolved = TRUE,
                    !.resp = resp, !.pre = gmRates[req.base],
                    !.preTs = gmStamps[req.base], !.at = req.now]

Respond(i, resp) ==
    LET req == requests[i]
        o == Outcome(resp, req.target)
    IN  /\ gmRates' = IF o.store THEN StoreRates(gmRates, req, resp) ELSE gmRates
        /\ gmStamps' = IF o.store THEN StoreStamp(gmStamps, req) ELSE gmStamps
        /\ requests' = RemoveAt(requests, i)
        /\ ev' = ResponseEvent(req, resp, o)
        /\ fetchedFor' = IF o.store THEN [fetchedFor EXCEPT ![req.base] = req.target]
                         ELSE fetchedFor
        /\ UNCHANGED now

\* Ends of a request that GM_xmlhttpRequest reports to ontimeout or onabort.
\* getExchangeRate registers onload and onerror only.
UnhandledEnds == {"timeout", "abort"}

\* Request i ends in one of them: no callback of the call runs, nothing
\* resolves its promise, and the request is over.
EndUnhandled(i, end) ==
    /\ requests' = RemoveAt(requests, i)
    /\ ev' = [NoEvent EXCEPT !.op = end, !.base = requests[i].base,
                             !.target = requests[i].target, !.kind = "fetch",
                             !.resolved = FALSE, !.pre = gmRates[requests[i].base],
                             !.preTs = gmStamps[requests[i].base],
                             !.at = requests[i].now]
    /\ UNCHANGED <<gmRates, gmStamps, now, fetchedFor>>

\* Time passes.
Tick ==
    /\ now < StartTime + MaxTicks * TickMs
    /\ now' = now + TickMs
    /\ ev' = NoEvent
    /\ UNCHANGED <<gmRates, gmStamps, requests, fetchedFor>>

RateCall ==
    /\ \E b \in BaseArgs, t \in TargetArgs : Call(b, t, "call")
    /\ UNCHANGED <<domVars, appVars, call>>
RateRespond ==
    /\ \E i \in 1..Len(requests), resp \in Responses : Respond(i, resp)
    /\ UNCHANGED <<domVars, appVars, call>>
RateEnd ==
    /\ \E i \in 1..Len(requests), end \in UnhandledEnds : EndUnhandled(i, end)
    /\ UNCHANGED <<domVars, appVars, call>>
RateTick == Tick /\ UNCHANGED <<domVars, appVars, call>>

RateNext == RateCall \/ RateRespond \/ RateEnd \/ RateTick

SpecRate == RateInit /\ [][RateNext]_vars

(***************************************************************************)
(* Overlapping fetches of one base: calls of getExchangeRate and of the    *)
(* Refresh handler's cache bust followed by its call, with several         *)
(* requests in flight and their responses arriving in any order.           *)
(***************************************************************************)
\* Bound on the requests in flight at once.
MaxOverlap == 2

\* getExchangeRate(baseArg, targetArg) called when storage is store and
\* stamps, with at most n requests in flight.
CallFrom(n, baseArg, targetArg, who, store, stamps) ==
    \E r \in {GetExchangeRateSync(baseArg, targetArg, store, stamps, now)} :
      \E sends \in {IF r.kind = "fetch" THEN <<Request(r, now, who)>> ELSE <<>>} :
        /\ Len(requests) + Len(sends) <= n
        /\ requests' = requests \o sends
        /\ gmRates' = store
        /\ gmStamps' = stamps
        /\ fetchedFor' = [b \in Bases |-> IF store[b].has THEN fetchedFor[b] ELSE ""]
        /\ ev' = CallEvent(r, Len(sends), store, stamps)
        /\ UNCHANGED now

OverlapCall ==
    /\ \E t \in Targets : CallFrom(MaxOverlap, "EUR", t, "call", gmRates, gmStamps)
    /\ UNCHANGED <<domVars, appVars, call>>

\* The Refresh handler's storage steps: the bust, then the call.
OverlapRefresh ==
    /\ \E t \in Targets :
          CallFrom(MaxOverlap, "EUR", t, "refresh",
                   [gmRates EXCEPT !["EUR"] = NullEntry],
                   [gmStamps EXCEPT !["EUR"] = 0])
    /\ UNCHANGED <<domVars, appVars, call>>

OverlapNext == OverlapCall \/ OverlapRefresh \/ RateRespond \/ RateTick

SpecOverlap == RateInit /\ [][OverlapNext]_vars

(***************************************************************************)
(* The whole script on a page: init, the debounced re-scan behind the      *)
(* MutationObserver, and the panel's Save and Refresh handlers.            *)
(***************************************************************************)
\* What the settings storage may hold when the page loads, and what Save
\* may be clicked with.
StoredSettings == {DefaultSettings, Settings(FALSE, "HUF"), Settings(TRUE, "USD")}
\* What loadSettings can find when the page loads: the above, or an override
\* locale that an earlier Save stored as typed.
StoredAtLoad == StoredSettings \cup {Overridden(DefaultSettings, l) : l \in RejectedLocales}

\* Bound on the clock steps while the script runs on a page.
MaxAppTicks == 1

\* detectBaseCurrencyFromHost() on the hosts the script is loaded on.
AppBases == {"EUR"}

\* Responses of the rates service.
AppResponses ==
    {r \in Responses :
        \/ r.kind = "error"
        \/ r.status = 200 /\ r.body = "table"
             /\ r.table["HUF"] \in {Num(4, 0), Num(0 - 3, 0)}}

\* Markup the host adds while the script runs.
AppBlocks ==
    { <<El(0, {"a-price"}, "span", NoAttr, PriceText)>>,
      <<El(0, {}, "span", Attr(FeeText), NoDigitText)>>,
      <<El(0, {"sc-price"}, "span", NoAttr, PriceText)>> }

\* A table stored by an earlier page load.
StoredTable == [c \in Targets |-> IF c = "HUF" THEN Num(4, 0) ELSE Num(2, 0)]

\* CURRENT_RATE || 0
OrZero(v) == IF Truthy(v) THEN v ELSE Zero

RecordIn(h, op, rate, added) ==
    [prev |-> h.last, last |-> op, prevRate |-> h.rate, rate |-> rate, added |-> added]

Init ==
    /\ \E e \in {NullEntry, TableEntry(StoredTable)} :
          /\ gmRates = [b \in Bases |-> e]
          /\ gmStamps = [b \in Bases |-> IF e.has THEN StartTime - TickMs ELSE 0]
          /\ fetchedFor = [b \in Bases |-> IF e.has THEN "HUF" ELSE ""]
    /\ now = StartTime
    /\ requests = <<>>
    /\ ev = NoEvent
    /\ elems \in {<<>>} \cup AppBlocks
    /\ kids = HostKids(elems)
    /\ processed = {}
    /\ hist = NoHist
    /\ SETTINGS = NullSettings
    /\ CURRENT_BASE = ""
    /\ CURRENT_RATE = Zero
    /\ pc = "start"
    /\ observing = FALSE
    /\ timer = <<>>
    /\ quiet = WaitMs
    /\ burst = 0
    /\ call = NoCall

\* The rest of a handler once its rate has arrived.  init: the first pass,
\* then the observer.  save: purge, and a pass if enabled.  refresh: purge
\* and a pass.  s: SETTINGS as the handler reads it.
Resume(who, value, s) ==
    \E d0 \in {IF who = "init" THEN Doc ELSE ClearRenderedHints(Doc)} :
    \E rate \in {IF who = "init" THEN OrZero(value) ELSE value} :
    \E d \in {RunConversionPass(d0, rate, s)} :
    \E h0 \in {IF who = "init" THEN hist ELSE RecordIn(hist, "clear", Zero, 0)} :
        /\ CURRENT_RATE' = value
        /\ kids' = d.kids
        /\ processed' = d.proc
        /\ hist' = IF s.enabled
                   THEN RecordIn(h0, "pass", rate, CountHints(d.kids) - CountHints(d0.kids))
                   ELSE h0
        /\ pc' = IF who = "init" THEN "done" ELSE pc
        /\ observing' = (observing \/ who = "init")
        /\ \E mutated \in {observing /\ (d0.kids # kids \/ d.kids # d0.kids)} :
              /\ timer' = Observe(timer, mutated)
              /\ quiet' = ObservedQuiet(quiet, mutated)
              /\ burst' = ObservedBurst(burst, mutated)

\* The handler waits for its request.
Suspend(who) ==
    /\ pc' = IF who = "init" THEN "awaiting" ELSE pc
    /\ UNCHANGED <<CURRENT_RATE, kids, processed, hist, observing, timer, quiet, burst>>

\* await getExchangeRate(baseArg, targetArg) in handler `who`, storage being
\* store and stamps when it is called.
Await(baseArg, targetArg, who, store, stamps, s) ==
    \E r \in {GetExchangeRateSync(baseArg, targetArg, store, stamps, now)} :
        /\ gmRates' = store
        /\ gmStamps' = stamps
        /\ fetchedFor' = [b \in Bases |-> IF store[b].has THEN fetchedFor[b] ELSE ""]
        /\ ev' = CallEvent(r, IF r.kind = "fetch" THEN 1 ELSE 0, store, stamps)
        /\ UNCHANGED now
        /\ IF r.kind = "fetch"
           THEN /\ Len(requests) < MaxInFlight
                /\ requests' = Append(requests, Request(r, now, who))
                /\ Suspend(who)
           ELSE /\ requests' = requests
                /\ Resume(who, r.value, s)

\* init() up to its await.
\* When buildFormatter throws, init ends there: its promise is rejected.
InitStart ==
    /\ pc = "start"
    /\ \E s \in StoredAtLoad, b \in AppBases :
          /\ SETTINGS' = s
          /\ IF BuildFormatter(s).ok
             THEN /\ CURRENT_BASE' = b
                  /\ Await(b, s.targetCurrency, "init", gmRates, gmStamps, s)
             ELSE /\ pc' = "failed"
                  /\ UNCHANGED <<rateVars, kids, processed, hist, CURRENT_BASE,
                                 CURRENT_RATE, observing, timer, quiet, burst>>
    /\ UNCHANGED elems
    /\ UNCHANGED call

\* A response arrives and the handler that awaited it goes on.
AppRespond ==
    /\ \E i \in 1..Len(requests), resp \in AppResponses :
          /\ Respond(i, resp)
          /\ Resume(requests[i].who, Outcome(resp, requests[i].target).value, SETTINGS)
    /\ UNCHANGED <<elems, SETTINGS, CURRENT_BASE>>
    /\ UNCHANGED call

\* The host page adds markup; the observer, once installed, arms the timer.
HostMutation ==
    /\ Len(kids[0]) - CountHintsIn(kids[0]) < MaxBlocks
    /\ \E b \in AppBlocks :
          /\ elems' = elems \o PlaceBlock(b, 0, Len(elems))
          /\ kids' = [p \in 0..Len(elems') |->
                        IF p = 0 THEN Append(kids[0], ElItem(Len(elems) + 1))
                        ELSE IF p <= Len(elems) THEN kids[p] ELSE <<>>]
    /\ timer' = Observe(timer, observing)
    /\ quiet' = ObservedQuiet(quiet, observing)
    /\ burst' = ObservedBurst(burst, observing)
    /\ UNCHANGED <<processed, hist, rateVars, SETTINGS, CURRENT_BASE, CURRENT_RATE,
                   pc, observing>>
    /\ UNCHANGED call

\* A timeout of debouncedRun is due and fires: the re-scan.
TimerFire ==
    /\ timer # <<>>
    /\ Head(timer) = 0
    /\ \E rate \in {OrZero(CURRENT_RATE)} :
       \E d \in {RunConversionPass(Doc, rate, SETTINGS)} :
          /\ kids' = d.kids
          /\ processed' = d.proc
          /\ hist' = IF SETTINGS.enabled
                     THEN RecordIn(hist, "pass", rate, CountHints(d.kids) - CountHints(kids))
                     ELSE hist
          /\ timer' = Observe(Tail(timer), observing /\ d.kids # kids)
          /\ quiet' = ObservedQuiet(quiet, observing /\ d.kids # kids)
          /\ burst' = ObservedBurst(0, observing /\ d.kids # kids)
    /\ UNCHANGED <<elems, rateVars, SETTINGS, CURRENT_BASE, CURRENT_RATE, pc, observing>>
    /\ UNCHANGED call

\* Save clicked in the panel.
SaveClick ==
    /\ pc \in {"awaiting", "done"}
    /\ \E s \in StoredSettings :
          /\ SETTINGS' = s
          /\ Await(CURRENT_BASE, s.targetCurrency, "save", gmRates, gmStamps, s)
    /\ UNCHANGED <<elems, CURRENT_BASE>>
    /\ UNCHANGED call

\* Refresh clicked in the panel: the base's cache entry is dropped first.
RefreshClick ==
    /\ pc \in {"awaiting", "done"}
    /\ Await(CURRENT_BASE, SETTINGS.targetCurrency, "refresh",
             [gmRates EXCEPT ![CURRENT_BASE] = NullEntry],
             [gmStamps EXCEPT ![CURRENT_BASE] = 0], SETTINGS)
    /\ UNCHANGED <<elems, SETTINGS, CURRENT_BASE>>
    /\ UNCHANGED call

\* Hours pass while the page is open: every pending timeout is due.
AppTick ==
    /\ now < StartTime + MaxAppTicks * TickMs
    /\ Tick
    /\ timer' = [i \in DOMAIN timer |-> 0]
    /\ quiet' = WaitMs
    /\ UNCHANGED <<domVars, SETTINGS, CURRENT_BASE, CURRENT_RATE, pc, observing, burst>>
    /\ UNCHANGED call

\* StepMs pass.
Elapse ==
    /\ quiet < WaitMs \/ \E i \in DOMAIN timer : timer[i] > 0
    /\ timer' = [i \in DOMAIN timer |-> Max(timer[i] - StepMs, 0)]
    /\ quiet' = Min(quiet + StepMs, WaitMs)
    /\ UNCHANGED <<rateVars, domVars, SETTINGS, CURRENT_BASE, CURRENT_RATE, pc, observing, burst>>
    /\ UNCHANGED call

Next ==
    \/ InitStart
    \/ AppRespond
    \/ HostMutation
    \/ TimerFire
    \/ SaveClick
    \/ RefreshClick
    \/ AppTick
    \/ Elapse

Spec == Init /\ [][Next]_vars

(***************************************************************************)
(* Save and Refresh clicked while earlier clicks still await their rate:   *)
(* the script after an init that fetched and stored a table and rendered   *)
(* the page, with up to MaxOverlap requests in flight.                     *)
(***************************************************************************)
\* await getExchangeRate(baseArg, targetArg) in handler `who`, with at most
\* n requests in flight.
AwaitUpTo(n, baseArg, targetArg, who, store, stamps, s) ==
    \E r \in {GetExchangeRateSync(baseArg, targetArg, store, stamps, now)} :
        /\ gmRates' = store
        /\ gmStamps' = stamps
        /\ fetchedFor' = [b \in Bases |-> IF store[b].has THEN fetchedFor[b] ELSE ""]
        /\ ev' = CallEvent(r, IF r.kind = "fetch" THEN 1 ELSE 0, store, stamps)
        /\ UNCHANGED now
        /\ IF r.kind = "fetch"
           THEN /\ Len(requests) < n
                /\ requests' = Append(requests, Request(r, now, who))
                /\ Suspend(who)
           ELSE /\ requests' = requests
                /\ Resume(who, r.value, s)

ClicksInit ==
    /\ gmRates = [b \in Bases |-> IF b = "EUR" THEN TableEntry(StoredTable) ELSE NullEntry]
    /\ gmStamps = [b \in Bases |-> IF b = "EUR" THEN StartTime ELSE 0]
    /\ fetchedFor = [b \in Bases |-> IF b = "EUR" THEN "HUF" ELSE ""]
    /\ now = StartTime
    /\ requests = <<>>
    /\ ev = NoEvent
    /\ elems \in AppBlocks
    /\ \E d \in {RunConversionPass([kids |-> HostKids(elems), proc |-> {}],
                                   StoredTable["HUF"], DefaultSettings)} :
          /\ kids = d.kids
          /\ processed = d.proc
          /\ hist = RecordIn(NoHist, "pass", StoredTable["HUF"], CountHints(d.kids))
    /\ SETTINGS = DefaultSettings
    /\ CURRENT_BASE = "EUR"
    /\ CURRENT_RATE = StoredTable["HUF"]
    /\ pc = "done"
    /\ observing = TRUE
    /\ timer = <<>>
    /\ quiet = WaitMs
    /\ burst = 0
    /\ call = NoCall

ClicksSave ==
    /\ \E s \in StoredSettings :
          /\ SETTINGS' = s
          /\ AwaitUpTo(MaxOverlap, CURRENT_BASE, s.targetCurrency, "save",
                       gmRates, gmStamps, s)
    /\ UNCHANGED <<elems, CURRENT_BASE>>
    /\ UNCHANGED call

ClicksRefresh ==
    /\ AwaitUpTo(MaxOverlap, CURRENT_BASE, SETTINGS.targetCurrency, "refresh",
                 [gmRates EXCEPT ![CURRENT_BASE] = NullEntry],
                 [gmStamps EXCEPT ![CURRENT_BASE] = 0], SETTINGS)
    /\ UNCHANGED <<elems, SETTINGS, CURRENT_BASE>>
    /\ UNCHANGED call

ClicksNext == ClicksSave \/ ClicksRefresh \/ AppRespond \/ TimerFire \/ Elapse

SpecClicks == ClicksInit /\ [][ClicksNext]_vars

(***************************************************************************)
(* The script after init on a page without candidates: the observer is     *)
(* installed, then the host renders its content and leaves the page alone. *)
(***************************************************************************)
SettleInit ==
    /\ IdleRate
    /\ elems = <<>>
    /\ kids = HostKids(elems)
    /\ processed = {}
    /\ hist = NoHist
    /\ SETTINGS \in {Settings(TRUE, "HUF"), Settings(TRUE, "USD"), Settings(FALSE, "HUF")}
    /\ CURRENT_BASE = "EUR"
    /\ CURRENT_RATE \in PassRates
    /\ pc = "done"
    /\ observing = TRUE
    /\ timer = <<>>
    /\ quiet = WaitMs
    /\ burst = 0
    /\ call = NoCall

\* The host renders a page of up to MaxBlocks blocks in one task.
PageLoad ==
    /\ elems = <<>>
    /\ \E n \in 1..MaxBlocks : elems' \in Pages(n)
    /\ kids' = HostKids(elems')
    /\ timer' = Observe(timer, observing)
    /\ quiet' = ObservedQuiet(quiet, observing)
    /\ burst' = ObservedBurst(burst, observing)
    /\ UNCHANGED <<processed, hist, rateVars, SETTINGS, CURRENT_BASE, CURRENT_RATE, pc, observing>>
    /\ UNCHANGED call

SettleNext == PageLoad \/ TimerFire \/ Elapse

\* A timeout of debouncedRun is due.
TimerDue == timer # <<>> /\ Head(timer) = 0

\* Time passes, and the event loop runs a timeout that is due: weak fairness
\* of Elapse and of TimerFire.  TimerFire always changes timer, so TimerDue
\* is ENABLED <<TimerFire>>_vars, written out.
SpecSettle ==
    /\ SettleInit /\ [][SettleNext]_vars
    /\ WF_vars(Elapse)
    /\ ([]<>~TimerDue \/ []<><<TimerFire>>_vars)

(***************************************************************************)
(* The host changes a price in place.  After init the host renders price   *)
(* widgets and later rewrites the text of one: either it changes the data  *)
(* of the text node, which an observer of childList mutations does not     *)
(* see, or it replaces the text node, which the observer sees.  The        *)
(* element, its classes and its other child nodes stay.                    *)
(***************************************************************************)
SyncWidgets ==
    { El(0, {"a-price"}, "span", NoAttr, PriceText),
      El(0, {"a-price", "a-text-price"}, "span", NoAttr, PriceText) }
SyncPages == {<<w>> : w \in SyncWidgets} \cup {<<w1, w2>> : w1, w2 \in SyncWidgets}

SyncLoad ==
    /\ elems = <<>>
    /\ elems' \in SyncPages
    /\ kids' = HostKids(elems')
    /\ timer' = Observe(timer, observing)
    /\ quiet' = ObservedQuiet(quiet, observing)
    /\ burst' = ObservedBurst(burst, observing)
    /\ UNCHANGED <<processed, hist, rateVars, SETTINGS, CURRENT_BASE, CURRENT_RATE, pc, observing>>
    /\ UNCHANGED call

\* The price of element i becomes FeeText.
HostTextChange ==
    /\ \E i \in 1..Len(elems), replaced \in BOOLEAN :
          /\ elems[i].text = PriceText
          /\ elems' = [elems EXCEPT ![i].text = FeeText]
          /\ timer' = Observe(timer, observing /\ replaced)
          /\ quiet' = ObservedQuiet(quiet, observing /\ replaced)
          /\ burst' = ObservedBurst(burst, observing /\ replaced)
    /\ UNCHANGED <<kids, processed, hist, rateVars, SETTINGS, CURRENT_BASE, CURRENT_RATE,
                   pc, observing>>
    /\ UNCHANGED call

SyncNext == SyncLoad \/ HostTextChange \/ TimerFire \/ Elapse

\* Time passes and a timeout that is due runs, as in SpecSettle.
SpecSync ==
    /\ SettleInit /\ [][SyncNext]_vars
    /\ WF_vars(Elapse)
    /\ ([]<>~TimerDue \/ []<><<TimerFire>>_vars)

(***************************************************************************)
(* Properties of getExchangeRate (checked under SpecRate).  A call leaves  *)
(* storage and clock as they are, so after a call event the stored entry   *)
(* and `now` are those the call saw.                                       *)
(***************************************************************************)
IsCall == ev.op = "call"
IsResponse == ev.op \in {"load", "error"}
Entry == gmRates[ev.base]
Age == now - gmStamps[ev.base]
CachedRate == Lookup(Entry.table, ev.target)
StorageUntouched == gmRates[ev.base] = ev.pre /\ gmStamps[ev.base] = ev.preTs

\* A response that carries no finite positive rate for the target.
FailedResponse(resp, target) ==
    \/ resp.kind = "error"
    \/ resp.body # "table"
    \/ ~ValidRate(Lookup(resp.table, target))

\* C4: a request that fails (error, malformed body, missing or invalid
\* target rate) resolves with 0 and leaves the base's stored table and
\* timestamp unchanged.
C4_FailedFetchResolvesZero ==
    (IsResponse /\ FailedResponse(ev.resp, ev.target))
        => (ev.resolved /\ ev.value = Zero /\ StorageUntouched)

\* C5: a response with a non-2xx status resolves with 0 and writes nothing,
\* whatever its body.
C5_Non2xxIsFailure ==
    (ev.op = "load" /\ ~(ev.resp.status \in 200..299))
        => (ev.value = Zero /\ StorageUntouched)

\* C6: getExchangeRate(x, x) resolves with 1 at once: no request is sent
\* and storage is not read, whatever it holds.
C6_SameCurrencyIsOne ==
    (IsCall /\ ev.base = ev.target)
        => (ev.resolved /\ ev.value = One /\ ev.sent = 0 /\ ~ev.read
              /\ ev.kind = "same" /\ StorageUntouched)

C6_Witness ==
    /\ IsCall /\ ev.base = ev.target /\ ev.value = One
    /\ Entry.has /\ Age < FX_CACHE_MS

\* C7: an entry younger than 12 h with a finite positive rate for the target
\* is served (that rate, no request); an entry of age >= 12 h is never served.
C7_FreshEntryServed ==
    (IsCall /\ ev.base # ev.target)
        => /\ (Entry.has /\ Age < FX_CACHE_MS /\ ValidRate(CachedRate))
                => (ev.resolved /\ ev.value = CachedRate /\ ev.sent = 0)
           /\ (Age >= FX_CACHE_MS) => (~ev.resolved /\ ev.kind = "fetch")

C7_Witness ==
    /\ IsCall /\ ev.kind = "cache" /\ ev.value = CachedRate /\ ValidRate(CachedRate)
    /\ Age > 0 /\ Age < FX_CACHE_MS /\ requests = <<>>

\* C8: a storing onload stores the whole returned table under the base with
\* the call's timestamp, and a call for any target with a finite positive
\* rate in a fresh stored table is answered from it without a request.
C8_WholeTableCached ==
    /\ (ev.op = "load" /\ ~FailedResponse(ev.resp, ev.target))
          => /\ Entry.has
             /\ \A c \in Targets : Lookup(Entry.table, c) = Lookup(ev.resp.table, c)
             /\ gmStamps[ev.base] = ev.at
    /\ (IsCall /\ ev.base # ev.target /\ Entry.has /\ Age < FX_CACHE_MS
          /\ fetchedFor[ev.base] # ev.target /\ ValidRate(CachedRate))
          => (ev.resolved /\ ev.value = CachedRate /\ ev.sent = 0)

C8_Witness ==
    /\ IsCall /\ ev.kind = "cache" /\ ev.base # ev.target
    /\ fetchedFor[ev.base] \notin {"", ev.target}
    /\ ev.value = CachedRate /\ ValidRate(CachedRate) /\ requests = <<>>

\* C9 as claimed: the cache answers only when the entry is fresh and holds a
\* finite positive rate for the target; otherwise one request is sent.
C9_CacheOnlyWhenFreshAndValid ==
    (IsCall /\ ev.base # ev.target)
        => LET ok == Entry.has /\ Age < FX_CACHE_MS /\ ValidRate(CachedRate)
           IN  /\ ok <=> (ev.kind = "cache")
               /\ ~ok => (ev.sent = 1 /\ ~ev.resolved)

\* C9 as amended: the cache answers whenever the entry is present and fresh,
\* with the target's rate if it is finite and positive and with 0 otherwise;
\* exactly when the entry is absent or stale, one request for the base's
\* table is sent.
C9_CacheWheneverFresh ==
    (IsCall /\ ev.base # ev.target)
        => IF Entry.has /\ Age < FX_CACHE_MS
           THEN /\ ev.resolved /\ ev.sent = 0
                /\ ev.value = (IF ValidRate(CachedRate) THEN CachedRate ELSE Zero)
           ELSE /\ ~ev.resolved /\ ev.sent = 1
                /\ requests # <<>>
                /\ requests[Len(requests)].base = ev.base
                /\ requests[Len(requests)].target = ev.target

C9_Witness ==
    /\ IsCall /\ ev.base # ev.target /\ Entry.has /\ Age < FX_CACHE_MS
    /\ ~ValidRate(CachedRate) /\ ev.resolved /\ ev.value = Zero /\ ev.sent = 0

\* C10: every resolved value is 0, or 1 for base = target, or a finite
\* strictly positive number; and a fetch that writes the cache writes a
\* finite strictly positive rate for its target.
C10_ResolvedRatesValid ==
    /\ ev.resolved
          => \/ ev.value = Zero
             \/ (ev.value = One /\ ev.base = ev.target)
             \/ ValidRate(ev.value)
    /\ (ev.op = "load" /\ ~StorageUntouched) => ValidRate(CachedRate)


(***************************************************************************)
(* Properties of the pass                                                  *)
(***************************************************************************)
Pristine == HostKids(elems)

IsWidget(c) == "a-price" \in elems[c].cls
IsBadge(c) == elems[c].attr.has
IsRow(c) == elems[c].cls \cap CartClasses # {}
Candidates == {c \in 1..Len(elems) : IsWidget(c) \/ IsBadge(c) \/ IsRow(c)}

RowText(c) ==
    LET h2 == QuerySelector(Pristine, c, WithTag("h2"))
    IN  TextContent(Pristine, IF h2 # 0 THEN h2 ELSE c)

\* A candidate is eligible when the host page's own text for it, under one
\* of the groups that select it, denotes a price.
Eligible(c) ==
    \/ IsWidget(c) /\ IsNum(ParsePriceFromComplexElement(Pristine, c))
    \/ IsBadge(c) /\ ToUpper(elems[c].attr.val) # <<"F", "R", "E", "E">>
                  /\ IsNum(ParseStringValue(elems[c].attr.val))
    \/ IsRow(c) /\ IsNum(ParseStringValue(RowText(c)))

Enabled == SETTINGS.loaded /\ SETTINGS.enabled

\* C2: a pass that follows a pass at the same rate, with no page change in
\* between, adds no hint node.
C2_SecondPassAddsNothing ==
    (Enabled /\ hist.prev = "pass" /\ hist.last = "pass" /\ hist.prevRate = hist.rate)
        => hist.added = 0

\* C3: after clearRenderedHints followed by runConversionPass every eligible
\* candidate has exactly one hint and every other candidate none; after
\* clearRenderedHints alone the document has no hint and no processed marker.
C3_PurgeRerunOnePerEligible ==
    /\ (Enabled /\ hist.prev = "clear" /\ hist.last = "pass")
          => \A c \in Candidates :
                HintsOf(kids, c) = IF Eligible(c) THEN 1 ELSE 0
    /\ hist.last = "clear" => CountHints(kids) = 0 /\ processed = {}


(***************************************************************************)
(* Properties of the whole script                                          *)
(***************************************************************************)
\* C1: with a rate of 0 conversion is skipped: no pass, in init, in the
\* debounced re-scan, or after Save or Refresh, attaches a hint computed
\* with rate 0 (or marks the widget it would have been attached to).
C1_NoHintAtRateZero ==
    /\ \A h \in Hints(kids) : h.rate # Zero
    /\ (hist.last = "pass" /\ hist.rate = Zero) => hist.added = 0


(***************************************************************************)
(* parseStringValue on its own: applied once to a string drawn from the    *)
(* strings of up to MaxLen characters and from the documented examples.    *)
(***************************************************************************)
MaxLen == 4
Chars == {"0", "1", "5", ".", ",", " ", "x", "-"}
Strings(n) == UNION {[1..k -> Chars] : k \in 0..n}
Examples ==
    { <<"1", ".", "2", "3", "4", ",", "5", "6">>,
      <<"1", ",", "2", "3", "4", ".", "5", "6">>,
      <<"1", "2", "3", "4">>,
      <<"a", "b", "c">>,
      <<"F", "R", "E", "E">> }
ParseInputs == Strings(MaxLen) \cup Examples

ParseInit ==
    /\ IdleRate
    /\ elems = <<>>
    /\ kids = HostKids(elems)
    /\ processed = {}
    /\ hist = NoHist
    /\ SETTINGS = NullSettings
    /\ CURRENT_BASE = ""
    /\ CURRENT_RATE = Zero
    /\ pc = "start"
    /\ observing = FALSE
    /\ timer = <<>>
    /\ quiet = WaitMs
    /\ burst = 0
    /\ call \in {[NoCall EXCEPT !.arg = str] : str \in ParseInputs}

ParseApply ==
    /\ call.fn = "none"
    /\ call' = [call EXCEPT !.fn = "parseStringValue", !.ret = ParseStringValue(call.arg)]
    /\ UNCHANGED <<rateVars, domVars, appVars>>

ParseNext == ParseApply

SpecParse == ParseInit /\ [][ParseNext]_vars

(***************************************************************************)
(* One price widget on its own: parsePriceFromComplexElement applied to    *)
(* it, and passes over it.  The widget has a text of its own and, each     *)
(* present or not, a whole part, a fraction part and an offscreen text.    *)
(***************************************************************************)
NoPart == [has |-> FALSE, text |-> <<>>]
Parts(texts) == {NoPart} \cup {[has |-> TRUE, text |-> t] : t \in texts}
Part(cls, part) ==
    IF part.has THEN <<El(1, {cls}, "span", NoAttr, part.text)>> ELSE <<>>

OwnTexts == {<<>>, NoDigitText, PriceText}
WholeTexts == {<<>>, NoDigitText, <<"1", "2">>}
FractionTexts == {<<>>, NoDigitText, <<"9", "9">>}
OffscreenTexts == {<<>>, NoDigitText, <<"E", "1", ",", "5">>}

WidgetPages ==
    { <<El(0, {"a-price"}, "span", NoAttr, own)>>
        \o Part("a-price-whole", w) \o Part("a-price-fraction", f)
        \o Part("a-offscreen", o) :
        own \in OwnTexts, w \in Parts(WholeTexts), f \in Parts(FractionTexts),
        o \in Parts(OffscreenTexts) }

WidgetRates == {Num(400, 0), Num(4, 0)}
WidgetTargets == {"HUF", "USD", "JPY", "ISK"}

WidgetInit ==
    /\ IdleRate
    /\ elems \in WidgetPages
    /\ kids = HostKids(elems)
    /\ processed = {}
    /\ hist = NoHist
    /\ SETTINGS \in {Settings(TRUE, cur) : cur \in WidgetTargets}
    /\ CURRENT_BASE = "EUR"
    /\ CURRENT_RATE = Zero
    /\ pc = "done"
    /\ observing = FALSE
    /\ timer = <<>>
    /\ quiet = WaitMs
    /\ burst = 0
    /\ call = NoCall

\* parsePriceFromComplexElement(widget) on the page as the host made it.
ExtractApply ==
    /\ call.fn = "none"
    /\ kids = HostKids(elems)
    /\ call' = [call EXCEPT !.fn = "parsePriceFromComplexElement",
                            !.ret = ParsePriceFromComplexElement(kids, 1)]
    /\ UNCHANGED <<rateVars, domVars, appVars>>

WidgetNext == ExtractApply \/ (\E rate \in WidgetRates : PassRun(rate))

SpecWidget == WidgetInit /\ [][WidgetNext]_vars

(***************************************************************************)
(* createHintElement: the font size and left margin of a hint, from the    *)
(* context element it is made for.                                         *)
(***************************************************************************)
\* sizeMap; a key outside it reads as undefined (written "").
SizeKeys == {"xl", "l", "m", "s", "mini"}
SizeMap(key) ==
    CASE key = "xl" -> "21px"
      [] key = "l" -> "17px"
      [] key = "m" -> "15px"
      [] key = "s" -> "13px"
      [] key = "mini" -> "11px"
      [] OTHER -> ""

\* The context element's signals: getAttribute('data-a-size') (null when the
\* attribute is absent, written "": null and the empty value are both falsy),
\* its class list, and whether closest('#corePriceDisplay_desktop_feature_div')
\* finds an ancestor.
SizeAttrs == {""} \cup SizeKeys \cup {"b"}
SizeClasses == {"a-size-xl", "a-size-large", "a-size-medium", "a-size-small", "a-size-mini"}
ContextClasses == SizeClasses \cup {"a-text-price"}
Contexts ==
    [size : SizeAttrs, classList : SUBSET ContextClasses, inCore : BOOLEAN]

\* The else-if chain over the size classes.
ClassSizeKey(classList) ==
    IF "a-size-xl" \in classList THEN "xl"
    ELSE IF "a-size-large" \in classList THEN "l"
    ELSE IF "a-size-medium" \in classList THEN "m"
    ELSE IF "a-size-small" \in classList THEN "s"
    ELSE IF "a-size-mini" \in classList THEN "mini"
    ELSE ""

\* A variant that looks at the classes before the attribute.
SizeKeyClassesFirst(ctx) ==
    IF ctx.inCore THEN "xl"
    ELSE IF ClassSizeKey(ctx.classList) # "" THEN ClassSizeKey(ctx.classList)
    ELSE ctx.size

\* sizeKey when the style is set.
SizeKey(ctx) ==
    IF ctx.inCore THEN "xl"
    ELSE IF ctx.size # "" THEN ctx.size
    ELSE ClassSizeKey(ctx.classList)

\* span.style.fontSize and span.style.marginLeft
FontSize(ctx) ==
    IF "a-text-price" \in ctx.classList THEN "12px"
    ELSE IF SizeMap(SizeKey(ctx)) # "" THEN SizeMap(SizeKey(ctx))
    ELSE "0.9em"
MarginLeft(ctx) == IF SizeKey(ctx) \in {"xl", "l"} THEN "8px" ELSE "5px"

HintStyle(ctx) == [fontSize |-> FontSize(ctx), marginLeft |-> MarginLeft(ctx)]

StyleInit ==
    /\ IdleRate
    /\ elems = <<>>
    /\ kids = HostKids(<<>>)
    /\ processed = {}
    /\ hist = NoHist
    /\ SETTINGS = DefaultSettings
    /\ CURRENT_BASE = "EUR"
    /\ CURRENT_RATE = Zero
    /\ pc = "done"
    /\ observing = FALSE
    /\ timer = <<>>
    /\ quiet = WaitMs
    /\ burst = 0
    /\ \E ctx \in Contexts : call = [fn |-> "none", arg |-> ctx, ret |-> NullVal]

StyleApply ==
    /\ call.fn = "none"
    /\ call' = [call EXCEPT !.fn = "createHintElement", !.ret = HintStyle(call.arg)]
    /\ UNCHANGED <<rateVars, domVars, appVars>>

StyleNext == StyleApply

SpecStyle == StyleInit /\ [][StyleNext]_vars

(***************************************************************************)
(* The debounced re-scan.                                                  *)
(***************************************************************************)
\* C11: mutation-triggered scans are debounced.  At most one timeout of the
\* re-scan is pending, exactly one while observed mutations wait for their
\* scan; and a pending timeout is never due before WaitMs have passed since
\* the most recent observed mutation, so a burst of mutations less than
\* WaitMs apart is followed by one scan, WaitMs after its last mutation.
C11_ScansAreDebounced ==
    /\ Len(timer) = IF burst > 0 THEN 1 ELSE 0
    /\ \A i \in DOMAIN timer : timer[i] >= WaitMs - quiet

\* A burst of two mutations was observed, the second while the timeout of
\* the first was pending, and the one timeout that is left is due.
C11_Witness ==
    /\ observing
    /\ burst >= 2
    /\ timer = <<0>>
    /\ quiet = WaitMs

\* No re-scan is pending and every eligible candidate carries a hint.
Converged ==
    /\ timer = <<>>
    /\ \A c \in Candidates : Eligible(c) => HintsOf(kids, c) >= 1

\* C12: with the script enabled and a usable rate, once the host page has
\* stopped changing the system reaches, and stays in, a state where every
\* eligible candidate carries a hint and no re-scan is pending.
C12_ConvergesAfterSettling ==
    <>[]((Enabled /\ ValidRate(CURRENT_RATE)) => Converged)

\* The re-scans that the script's own insertions cause come to an end.
RescansEnd == <>[](timer = <<>>)

(***************************************************************************)
(* Stored settings                                                         *)
(***************************************************************************)
\* C13: no stored settings value stops the script: whatever loadSettings
\* finds, init is not aborted, and once it is over the observer is
\* installed.
C13_NoStoredValueStopsInit ==
    /\ pc # "failed"
    /\ pc = "done" => observing

(***************************************************************************)
(* The ends of a request                                                   *)
(***************************************************************************)
\* C14: every call of getExchangeRate resolves, whatever the end of its
\* request: when the request has ended (loaded, failed, timed out or was
\* aborted) the call is resolved, and with 0 after a timeout or an abort.
C14_EveryEndResolves ==
    ev.op \in {"load", "error"} \cup UnhandledEnds
        => /\ ev.resolved
           /\ ev.op \in UnhandledEnds => ev.value = Zero

(***************************************************************************)
(* The pass, group by group                                                *)
(***************************************************************************)
\* C15: while the enabled setting is false runConversionPass is a no-op: on
\* the document as it is, hints and markers of earlier passes included, and
\* at every rate, it returns the document unchanged; and after a pass with
\* the setting off the page has no hint and no processed marker.
C15_DisabledPassIsNoOp ==
    /\ \A r \in PassRates :
          RunConversionPass(Doc, r, [SETTINGS EXCEPT !.enabled = FALSE]) = Doc
    /\ (~Enabled /\ hist.last = "pass")
          => /\ hist.added = 0
             /\ kids = Pristine
             /\ processed = {}

\* A pass has run with the setting off on a page with an eligible candidate.
C15_Witness ==
    /\ ~Enabled
    /\ hist.last = "pass"
    /\ \E c \in Candidates : Eligible(c)

IsFree(c) == IsBadge(c) /\ ToUpper(elems[c].attr.val) = <<"F", "R", "E", "E">>
BadgeHints(c) == {h \in Hints(kids) : h.id = c /\ h.grp = 2}
Listed(list, c) == \E i \in 1..Len(list) : list[i] = c

\* C16: after a pass every delivery badge of the page is marked processed,
\* with or without a hint, and is no candidate of the next pass; a badge
\* whose attribute is FREE in any casing has no hint of its group, after
\* the first pass and after every later one.
C16_BadgesAlwaysMarked ==
    (Enabled /\ hist.last = "pass")
        => \A c \in Candidates :
              IsBadge(c) => /\ c \in processed
                            /\ ~Listed(DeliveryBadges(Doc), c)
                            /\ IsFree(c) => BadgeHints(c) = {}

\* Two passes in a row have visited a page with a badge "Free" and a badge
\* that got its hint.
C16_Witness ==
    /\ Enabled
    /\ hist.prev = "pass"
    /\ hist.last = "pass"
    /\ \E c \in Candidates :
          /\ IsFree(c)
          /\ elems[c].attr.val = <<"F", "r", "e", "e">>
          /\ c \in processed
    /\ \E c \in Candidates : IsBadge(c) /\ BadgeHints(c) # {}

(***************************************************************************)
(* parseStringValue                                                        *)
(***************************************************************************)
Applied == call.fn = "parseStringValue"
Occurs(str, c) == \E i \in 1..Len(str) : str[i] = c
HasDigit(str) == \E i \in 1..Len(str) : str[i] \in Digits
Cleaned(str) == Filter(str, Digits \cup {".", ","})

\* The separator that stands for the decimal point: of '.' and ',' the one
\* that occurs last; ',' when it occurs alone.
DecimalMark(clean) ==
    IF Occurs(clean, ".") /\ Occurs(clean, ",")
    THEN clean[Max(LastIndexOf(clean, "."), LastIndexOf(clean, ","))]
    ELSE IF Occurs(clean, ",") THEN "," ELSE "."

\* clean with the other separator removed when both occur, and the decimal
\* mark written as a period.
Resolved(clean) ==
    LET dm == DecimalMark(clean)
        kept == IF Occurs(clean, ".") /\ Occurs(clean, ",")
                THEN Without(clean, {".", ","} \ {dm}) ELSE clean
    IN  [i \in 1..Len(kept) |-> IF kept[i] = dm THEN "." ELSE kept[i]]

NumberOrNull(v) == IF v.k = "nan" THEN NullVal ELSE v

\* C17: parseStringValue resolves the decimal separator: with both '.' and
\* ',' the one occurring last is the decimal point and the other is removed,
\* a ',' alone is the decimal point, otherwise nothing is substituted; so
\* "1.234,56" and "1,234.56" give 1234.56 and "1234" gives 1234.
C17_SeparatorResolved ==
    Applied =>
       /\ HasDigit(call.arg) =>
              call.ret = NumberOrNull(ParseFloat(Resolved(Cleaned(call.arg))))
       /\ call.arg = <<"1", ".", "2", "3", "4", ",", "5", "6">> => call.ret = Num(123456, 2)
       /\ call.arg = <<"1", ",", "2", "3", "4", ".", "5", "6">> => call.ret = Num(123456, 2)
       /\ call.arg = <<"1", "2", "3", "4">> => call.ret = Num(1234, 0)
       /\ call.arg = <<"1", ",", "5">> => call.ret = Num(15, 1)
       /\ call.arg = <<"1", ".", "5">> => call.ret = Num(15, 1)

\* "1.234,56" was parsed to 1234.56.
C17_Witness ==
    /\ Applied
    /\ call.arg = <<"1", ".", "2", "3", "4", ",", "5", "6">>
    /\ call.ret = Num(123456, 2)

\* C18: parseStringValue fails closed: a string without a digit gives null,
\* never 0; and every result is null or a number that is not negative,
\* never NaN.
C18_FailsClosed ==
    Applied =>
       /\ ~HasDigit(call.arg) => call.ret = NullVal
       /\ \/ call.ret = NullVal
          \/ call.ret.k = "num" /\ call.ret.m >= 0

\* A string of separators and a sign, without a digit, was parsed to null.
C18_Witness ==
    /\ Applied
    /\ call.arg = <<"-", ".", ",">>
    /\ call.ret = NullVal

\* A numeral as a whole: digits, with at most one period, and a digit on
\* one side of it at least.
WellFormed(n) ==
    LET ip == DigitPrefix(n)
        r == Drop(n, Len(ip))
        point == r # <<>> /\ Head(r) = "."
        fp == IF point THEN DigitPrefix(Tail(r)) ELSE <<>>
        rest == IF point THEN Drop(Tail(r), Len(fp)) ELSE r
    IN  rest = <<>> /\ (ip # <<>> \/ fp # <<>>)

\* C19: parseStringValue returns null whenever the normalised string is not
\* a well-formed numeral as a whole; it never returns the value of a prefix.
C19_WholeNumeralOrNull ==
    (Applied /\ ~WellFormed(Normalised(Cleaned(call.arg)))) => call.ret = NullVal

(***************************************************************************)
(* parsePriceFromComplexElement                                            *)
(***************************************************************************)
\* C20: parsePriceFromComplexElement returns null or a finite number for
\* every element a pass has visited, so that no hint is rendered for an
\* amount that is not a number and no widget is marked processed for one.
C20_PriceNullOrFinite ==
    (Enabled /\ hist.last = "pass")
        => /\ \A c \in Candidates :
                 IsWidget(c) =>
                    ParsePriceFromComplexElement(Pristine, c).k \in {"null", "num"}
           /\ \A h \in Hints(kids) : h.val.k = "num"

Extracted == call.fn = "parsePriceFromComplexElement"
TheWhole == QuerySelector(Pristine, 1, WithClass("a-price-whole"))
TheFraction == QuerySelector(Pristine, 1, WithClass("a-price-fraction"))
TheOffscreen == QuerySelector(Pristine, 1, WithClass("a-offscreen"))

\* The three strategies, each null when it does not apply or finds no number.
Structured ==
    IF TheWhole # 0 /\ TheFraction # 0
    THEN NumberOrNull(ParseFloat(
             Without(Trim(TextContent(Pristine, TheWhole)), {".", ","})
               \o <<".">> \o Trim(TextContent(Pristine, TheFraction))))
    ELSE NullVal
OffscreenText ==
    IF TheOffscreen # 0 /\ TextContent(Pristine, TheOffscreen) # <<>>
    THEN ParseStringValue(TextContent(Pristine, TheOffscreen))
    ELSE NullVal
FullText == ParseStringValue(TextContent(Pristine, 1))

FirstSuccess ==
    IF Structured # NullVal THEN Structured
    ELSE IF OffscreenText # NullVal THEN OffscreenText
    ELSE FullText

\* C21: the extractor tries whole + fraction, then the offscreen text, then
\* the full text, and the first strategy that yields a number wins; the
\* result is null only if all three fail.
C21_FirstSuccessWins ==
    Extracted => call.ret = FirstSuccess

(***************************************************************************)
(* Save, Refresh and the re-scan side by side                              *)
(***************************************************************************)
\* C22: hints rendered under an earlier target currency never stand next to
\* hints rendered under the new one: in every state, the states between
\* Save's update of SETTINGS and its purge and rerun included, all hints of
\* the document were rendered for one target currency and at one rate.
C22_HintsOfOneRendering ==
    \A h1, h2 \in Hints(kids) : h1.cur = h2.cur /\ h1.rate = h2.rate

\* C23: no conversion pass begins while a rate request started by init, Save
\* or Refresh is pending: no step taken with a request in flight is a
\* re-scan that runs runConversionPass.
C23_NoPassWhileFetching ==
    [][~(requests # <<>> /\ SETTINGS.enabled /\ TimerFire)]_vars

(***************************************************************************)
(* The cache entries                                                       *)
(***************************************************************************)
EntryChanges(b) == gmRates'[b] # gmRates[b] \/ gmStamps'[b] # gmStamps[b]

\* C24: the stored table and timestamp of a base are changed by a successful
\* fetch for that base only: every step that changes either of them is the
\* onload of a response for that base that the code stores.
C24_CacheChangedBySuccessOnly ==
    [][\A b \in Bases :
          EntryChanges(b) => /\ ev'.op = "load"
                             /\ ev'.base = b
                             /\ OnLoad(ev'.resp, ev'.target).store]_vars

(***************************************************************************)
(* C25: a cache entry is replaced as a whole.  Whatever the interleaving   *)
(* of overlapping fetches of a base and the order of their responses, a    *)
(* step that changes the base's stored table or timestamp is either a      *)
(* storing onload, after which the table is exactly that response's table  *)
(* and the timestamp the time that same request was made, or the Refresh   *)
(* handler's bust, which sets both to their empty values.  Tables are      *)
(* never merged.                                                           *)
(***************************************************************************)
C25_EntryReplacedWhole ==
    [][\A b \in Bases :
          EntryChanges(b) =>
              \/ /\ ev'.op = "load" /\ ev'.base = b
                 /\ gmRates'[b] = TableEntry(ev'.resp.table)
                 /\ gmStamps'[b] = ev'.at
              \/ /\ ev'.op = "call" /\ ev'.base = b
                 /\ gmRates'[b] = NullEntry
                 /\ gmStamps'[b] = 0]_vars

\* The response of an older request is stored over the entry of a newer one,
\* with a different table, while another request is still in flight.
C25_Witness ==
    /\ ev.op = "load" /\ ev.pre.has /\ ev.preTs > ev.at
    /\ ev.pre.table # ev.resp.table
    /\ gmRates[ev.base] = TableEntry(ev.resp.table)
    /\ gmStamps[ev.base] = ev.at

(***************************************************************************)
(* C26: the hint's font size and left margin follow from the context       *)
(* element's tier signals with this precedence: the primary price region   *)
(* forces tier xl; otherwise a size attribute wins over the size classes;  *)
(* otherwise the classes count in the order xl, large, medium, small,      *)
(* mini; an unrecognised or absent tier gives the relative default size;   *)
(* the struck-through price class forces the fixed small size whatever the *)
(* tier; and the margin is the wide one exactly when the tier is xl or l.  *)
(***************************************************************************)
Styled == call.fn = "createHintElement"
Struck == "a-text-price" \in call.arg.classList
\* The first size class of the element in the order of prominence, if any.
ClassOrder == <<"a-size-xl", "a-size-large", "a-size-medium", "a-size-small", "a-size-mini">>
ClassTier == <<"xl", "l", "m", "s", "mini">>
FirstClass ==
    {i \in 1..5 : /\ ClassOrder[i] \in call.arg.classList
                  /\ \A j \in 1..(i - 1) : ClassOrder[j] \notin call.arg.classList}
\* The tier the precedence resolves to ("" when there is none).
Tier ==
    IF call.arg.inCore THEN "xl"
    ELSE IF call.arg.size # "" THEN call.arg.size
    ELSE IF FirstClass # {} THEN ClassTier[The(FirstClass)]
    ELSE ""
TierSize ==
    [t \in SizeAttrs |->
        CASE t = "xl" -> "21px" [] t = "l" -> "17px" [] t = "m" -> "15px"
          [] t = "s" -> "13px" [] t = "mini" -> "11px" [] OTHER -> "0.9em"]

C26_StyleFollowsTier ==
    Styled =>
        /\ call.ret.fontSize = (IF Struck THEN "12px" ELSE TierSize[Tier])
        /\ (call.ret.marginLeft = "8px") <=> (Tier \in {"xl", "l"})
        /\ call.ret.marginLeft \in {"8px", "5px"}
        /\ call.arg.inCore => call.ret.marginLeft = "8px"
        /\ (~call.arg.inCore /\ call.arg.size = "b" /\ ~Struck)
              => call.ret.fontSize = "0.9em"

\* A size attribute s on an element that also carries the classes of larger
\* tiers, outside the primary price region: the attribute decides.
C26_Witness ==
    /\ Styled /\ ~call.arg.inCore /\ ~Struck
    /\ call.arg.size = "s"
    /\ {"a-size-xl", "a-size-large"} \subseteq call.arg.classList
    /\ call.ret = [fontSize |-> "13px", marginLeft |-> "5px"]

(***************************************************************************)
(* The rendered amount                                                     *)
(***************************************************************************)
\* The first pass over a widget with whole part "12" and fraction part "99",
\* at rate 400.
WholeAndFraction ==
    /\ TheWhole # 0 /\ elems[TheWhole].text = <<"1", "2">>
    /\ TheFraction # 0 /\ elems[TheFraction].text = <<"9", "9">>
FirstPassAt400 ==
    /\ hist.last = "pass" /\ hist.prev = "none" /\ hist.rate = Num(400, 0)
    /\ WholeAndFraction

\* text holds part as a run of adjacent characters.
Contains(text, part) ==
    \E i \in 0..(Len(text) - Len(part)) : SubSeq(text, i + 1, i + Len(part)) = part

\* v rounded to an integer, halves away from zero (v not negative).
RoundedNat(v) == (2 * v.m + Pow10(v.e)) \div (2 * Pow10(v.e))

C28_ObservingWhileRatePending ==
    pc \in {"awaiting", "done"} => observing

(***************************************************************************)
(* The order of a pass                                                     *)
(***************************************************************************)
FirstPass == Enabled /\ hist.prev = "none" /\ hist.last = "pass"
GroupHints(c, g) == {h \in Hints(kids) : h.id = c /\ h.grp = g}
\* The document as the third group finds it at row c: with the hints of the
\* widgets, of the badges and of the rows before c in document order.
BeforeRow(c) ==
    [p \in DOMAIN kids |->
        SelectSeq(kids[p], LAMBDA it : ~(it.k = "hint" /\ it.grp = 3 /\ it.id >= c))]
RowTarget(c) ==
    LET h2 == QuerySelector(Pristine, c, WithTag("h2")) IN IF h2 # 0 THEN h2 ELSE c
\* What each group finds for candidate c when the groups run in the order
\* widgets, badges, rows, each to its end.
WidgetValue(c) == ParsePriceFromComplexElement(Pristine, c)
TakenByWidgets(c) == IsWidget(c) /\ WidgetValue(c) # NullVal
BadgeValue(c) ==
    IF TakenByWidgets(c) \/ elems[c].attr.val = <<>> \/ IsFree(c) THEN NullVal
    ELSE ParseStringValue(elems[c].attr.val)
RowValue(c) ==
    IF TakenByWidgets(c) \/ IsBadge(c) THEN NullVal
    ELSE ParseStringValue(TextContent(BeforeRow(c), RowTarget(c)))
ValueOf(c, g) ==
    CASE g = 1 -> WidgetValue(c) [] g = 2 -> BadgeValue(c) [] g = 3 -> RowValue(c)
InGroup(c, g) ==
    CASE g = 1 -> IsWidget(c) [] g = 2 -> IsBadge(c) [] g = 3 -> IsRow(c)

\* C29: a pass handles all price widgets, then all delivery badges, then all
\* cart rows, each group to its end, as one step.  After the first pass over
\* a page every widget has its hint from the page's own text; every badge is
\* marked and has its hint unless the widgets' group marked it before; and
\* every row has its hint from the text its element has once all widgets,
\* all badges and the rows before it have theirs, unless one of the first two
\* groups marked it before.
C29_GroupsInOrder ==
    FirstPass =>
        \A c \in Candidates : \A g \in 1..3 :
            IF InGroup(c, g) /\ ValueOf(c, g) # NullVal
            THEN /\ Cardinality(GroupHints(c, g)) = 1
                 /\ \A h \in GroupHints(c, g) : h.val = ValueOf(c, g)
                 /\ c \in processed
            ELSE GroupHints(c, g) = {}

\* The first pass has met a row that is a badge as well, with a widget in
\* it: the widget has its hint, the badges' group has marked the row, and the
\* rows' group has left it without a hint although its text is a price.
C29_Witness ==
    /\ FirstPass
    /\ \E c \in Candidates :
          /\ IsRow(c) /\ IsBadge(c) /\ IsNum(ParseStringValue(RowText(c)))
          /\ c \in processed
          /\ GroupHints(c, 2) = {} /\ GroupHints(c, 3) = {}
          /\ \E w \in Candidates :
                IsWidget(w) /\ elems[w].parent = c /\ GroupHints(w, 1) # {}

(***************************************************************************)
(* Candidates whose text is no price                                       *)
(***************************************************************************)
\* The page's own text for candidate c under group g denotes no number.
Unparseable(c, g) ==
    CASE g = 1 -> ~IsNum(WidgetValue(c))
      [] g = 2 -> ~IsNum(ParseStringValue(elems[c].attr.val))
      [] g = 3 -> ~IsNum(ParseStringValue(RowText(c)))
\* c is a candidate of group g only.
OnlyInGroup(c, g) == \A g2 \in 1..3 : InGroup(c, g2) <=> (g2 = g)

\* C30: a candidate whose price text cannot be parsed is skipped silently.
\* After the first pass it has no hint of its group; a widget or a row that
\* no other group selects is left unmarked; and the candidates whose text is
\* a price have their hints all the same.
C30_UnparseableSkipped ==
    FirstPass =>
        \A c \in Candidates : \A g \in 1..3 :
            /\ (InGroup(c, g) /\ Unparseable(c, g))
                  => /\ GroupHints(c, g) = {}
                     /\ (g # 2 /\ OnlyInGroup(c, g)) => c \notin processed
            /\ (OnlyInGroup(c, g) /\ ~Unparseable(c, g) /\ ~IsFree(c))
                  => GroupHints(c, g) # {}

(***************************************************************************)
(* The processed marker                                                    *)
(***************************************************************************)
\* What group g finds for candidate c when no other group's marker counts:
\* the value of its own text as the group reads it.
OwnValue(c, g) ==
    CASE g = 1 -> WidgetValue(c)
      [] g = 2 -> IF elems[c].attr.val = <<>> \/ IsFree(c) THEN NullVal
                  ELSE ParseStringValue(elems[c].attr.val)
      [] g = 3 -> ParseStringValue(TextContent(BeforeRow(c), RowTarget(c)))

\* C31: each group has a processed marker of its own.  A mark set by one
\* group does not take the element from the candidates of another group that
\* selects it too: after the first pass every candidate has the hint of each
\* group that selects it and finds a value for it.
C31_MarkersPerGroup ==
    FirstPass =>
        \A c \in Candidates : \A g \in 1..3 :
            (InGroup(c, g) /\ OwnValue(c, g) # NullVal) => GroupHints(c, g) # {}

(***************************************************************************)
(* Conversion switched off                                                 *)
(***************************************************************************)
Clean == CountHints(kids) = 0 /\ processed = {}
\* Conversion is off and the last thing a handler did to the document was
\* the purge: a Save with enabled = false has run to its end.
SavedDisabled == SETTINGS.loaded /\ ~SETTINGS.enabled /\ hist.last = "clear"

\* C32: once a Save with enabled = false has completed the document holds no
\* hint and no processed marker, and no step taken while conversion stays
\* off (a re-scan after a mutation burst, Refresh and its response, any
\* pending response) adds a hint or a marker to a document without them.
C32_DisabledStaysClean ==
    /\ [](SavedDisabled => Clean)
    /\ [][(SETTINGS.loaded /\ ~SETTINGS.enabled /\ ~SETTINGS'.enabled /\ Clean)
             => Clean']_vars

\* Hints had been rendered; conversion was then switched off, the purge has
\* run, and a re-scan is pending on a page that has candidates.
C32_Witness ==
    /\ SavedDisabled /\ hist.prev = "pass"
    /\ requests = <<>>
    /\ Candidates # {}
    /\ timer # <<>>
    /\ Clean

(***************************************************************************)
(* Overlapping Save and Refresh                                            *)
(***************************************************************************)
\* The rates the service or the stored table can name for target t.
RatesOf(t) ==
    {Lookup(r.table, t) : r \in {x \in AppResponses : x.kind = "load"}}
        \cup {StoredTable[t]}
\* Every rate request of a click has completed and conversion is on.
ClicksSettled == pc = "done" /\ requests = <<>> /\ Enabled

\* C33: overlapping Save and Refresh clicks leave no mismatched rate.  When
\* all their requests have completed, in whatever order, CURRENT_RATE is 0 or
\* a rate of the pair (base, saved target currency), and every hint of the
\* document was rendered for the saved target at that rate.
C33_RateOfSavedTarget ==
    ClicksSettled =>
        /\ Truthy(CURRENT_RATE) => CURRENT_RATE \in RatesOf(SETTINGS.targetCurrency)
        /\ \A h \in Hints(kids) :
              h.cur = SETTINGS.targetCurrency /\ h.rate = OrZero(CURRENT_RATE)

(***************************************************************************)
(* One hint per candidate                                                  *)
(***************************************************************************)
\* C34: at most one hint per candidate at all times.  In every state that
\* the initial pass, the debounced passes, Save, Refresh and the purge can
\* reach in any order, the host page only adding nodes, no candidate of any
\* group has more than one hint node that the script rendered for it.
C34_AtMostOneHint ==
    \A c \in Candidates : HintsOf(kids, c) <= 1

\* Two passes in a row have run over a page with several candidates, and
\* each candidate has exactly one hint.
C34_Witness ==
    /\ hist.prev = "pass" /\ hist.last = "pass"
    /\ CountHints(kids) >= 2
    /\ \A c \in Candidates : HintsOf(kids, c) = 1
    /\ processed # {}

(***************************************************************************)
(* The text a row is parsed from                                           *)
(***************************************************************************)
\* C35: the amount converted for a cart row is parsed from the host page's
\* own text only.  After a pass the hint of every row carries the value of
\* the row's text as the host wrote it: the text of hints that this or an
\* earlier pass put inside the row is no part of the parsed string.
C35_RowParsedFromHostText ==
    (Enabled /\ hist.last = "pass")
        => \A c \in Candidates :
              IsRow(c) => \A h \in GroupHints(c, 3) :
                             h.val = ParseStringValue(RowText(c))

(***************************************************************************)
(* Hints and the page's current prices                                     *)
(***************************************************************************)
\* No re-scan is pending, every widget with a price has a hint, and every
\* hint shows its widget's current price at the current rate.
Synced ==
    /\ timer = <<>>
    /\ \A c \in Candidates :
          /\ IsNum(WidgetValue(c)) => HintsOf(kids, c) >= 1
          /\ \A h \in Hints(kids) :
                h.id = c => h.val = WidgetValue(c) /\ h.rate = CURRENT_RATE

\* C36: hints stay synchronized with the page.  Once the page has settled
\* the amount of every hint is the current price of its candidate times the
\* current rate, also when the host has changed the price text of an element
\* in place after the script had processed it.
C36_HintsFollowThePage ==
    <>[]((Enabled /\ ValidRate(CURRENT_RATE) /\ elems # <<>>) => Synced)

====
